---- MODULE Spec2Model ----
(***************************************************************************)
(* A model of the build/stage/transact pipeline of the "source" package    *)
(* manager (src/source/modules): the Builder's staged build and promotion, *)
(* the DependencyGraph, the FakeRoot staging sandbox and the Remover.      *)
(*                                                                         *)
(* The subsystems are checked one at a time, so each has its own            *)
(* specification (SpecBuilder, SpecGraph, SpecFakeRoot, SpecRemover); Spec *)
(* is their disjoint union.  A subsystem that is not the one running keeps *)
(* its variables at the idle values of IdleBuilder, IdleGraph, ...         *)
(***************************************************************************)
EXTENDS Integers, Sequences, FiniteSets, TLC

VARIABLES
    \* ---- Builder (build.py) ----
    b_pc,            \* position of the build()/install() pipeline
    recipe,          \* [build_system, src_kind]: recipe.build_system and the source tree
    dry_run,         \* Builder.dry_run
    timeout,         \* Builder.timeout
    install_prefix,  \* the staged tree under sandbox/install
    dest_path,       \* the real destination tree
    dest_before,     \* dest_path as it was when the Builder was constructed
    b_stages,        \* the stages started so far, in order
    b_exc,           \* the exception that ended the pipeline, [stage, kind]
    b_copy,          \* copytree's loop state: [todo, errors]
    \* ---- DependencyGraph (graph.py) ----
    graph,           \* self.graph: package -> insertion-ordered <<dep, weight>> list
    nodes,           \* self.nodes
    g_ret,           \* the last query and what it returned
    g_calls,         \* the add_package/remove_package calls made so far
    g_plain,         \* self.graph is the plain dict from_dict built, not a defaultdict
    g_io,            \* the last call that changed or exported the graph, and its result
    \* ---- FakeRoot (fakeroot.py) ----
    installed_files, \* self.installed_files: path -> metadata
    snapshots,       \* self.snapshots
    sandbox_fs,      \* what is on disk under FakeRoot.dest_path, per path
    root_exists,     \* FakeRoot.dest_path exists on disk
    fr_ret,          \* the last FakeRoot operation and rollback's locals
    fr_phase,        \* "snapshot": only install_files/create_symlink ran since the last
                     \* snapshot(); "rolled_back": the rollback() of that snapshot just returned
    \* ---- Remover (remove.py) and its collaborators ----
    \* ---- HookManager (hooks.py) ----
    hooks,           \* HookManager.hooks, in registration order
    hook_history,    \* HookManager.history
    hook_trace,      \* what the last call that ran hooks executed, in order
    \* ---- Remover (remove.py) and its collaborators ----
    installed_db,    \* installed package -> [deps, files]
    resolver,        \* the methods the Remover's resolver answers to
    r_history,       \* Remover.history
    r_ret,           \* the last remove_package/remove_packages call and its result
    \* ---- BinPackageManager (binpkg.py) ----
    binpkg_dir,      \* the files of binpkg_dir: file name -> content
    bp_dest,         \* the tree under the destination of install_binpkg
    bp_audit,        \* BinPackageManager.audit_history
    bp_ret,          \* the last BinPackageManager call and how it ended
    \* ---- History (history.py) ----
    journal,         \* the content of history_file
    h_audit,         \* History.audit_history
    h_pc,            \* position of the record() in progress
    h_ret,           \* the last History call, its locals and how it ended
    h_read,          \* what the last reader of history_file got
    \* ---- CacheManager (cache.py) ----
    cache_fs,        \* the files of each cache root: root -> name -> file
    c_audit,         \* CacheManager.audit_history
    c_ret,           \* the last CacheManager call and what it returned
    \* ---- DependencyResolver (resolver.py) ----
    rs_recipe,       \* the recipe resolve / find_missing is called with
    rs_db,           \* installed_db.get_recipe: dependency name -> recipe
    rs_installed,    \* the packages installed_db.is_installed holds for
    rs_ret,          \* the last DependencyResolver call and what it returned
    \* ---- History.rollback and list_history (history.py) ----
    hx_cfg,          \* whether the History has a cache manager / a fake root
    hx_cache,        \* the roots of that cache manager
    hx_journal,      \* the list the journal file holds
    hx_real,         \* the files named in the journal, on the real filesystem
    hx_sandbox,      \* the paths that exist under fake_root.dest_path
    hx_ret,          \* the last rollback / list_history call and its result
    \* ---- UseFlags (flags.py) ----
    uf_global,       \* UseFlags.global_flags
    uf_package,      \* UseFlags.package_flags
    uf_history,      \* UseFlags.history
    uf_config,       \* what the file at config_path holds
    uf_calls,        \* the mutating calls made so far
    uf_ret,          \* the last UseFlags call and what it returned
    \* ---- History.record by two processes (history.py) ----
    w_file,          \* what the journal file holds, as json.dump's pieces
    w_pc,            \* where each process is in its record call
    w_mem,           \* the list each process holds in memory
    w_audit,         \* each process's audit_history
    w_calls,         \* the record calls each process has made
    w_err,           \* the exception the last record call of a process raised
    w_overlap,       \* whether a record call began while another was under way
    \* ---- Sandbox (sandbox.py) ----
    sb_created,      \* whether Sandbox.sandboxes holds the package
    sb_dir,          \* the files in the package's sandbox directory
    sb_snapshot,     \* the package's snapshot directory
    sb_history,      \* the actions the Sandbox recorded in its History
    sb_ret,          \* the last Sandbox call and what it did
    component        \* the component a run exercises

builder_vars  == <<b_pc, recipe, dry_run, timeout, install_prefix, dest_path,
                   dest_before, b_stages, b_exc, b_copy>>
graph_vars    == <<graph, nodes, g_ret, g_calls, g_plain, g_io>>
fakeroot_vars == <<installed_files, snapshots, sandbox_fs, root_exists, fr_ret, fr_phase>>
hook_vars     == <<hooks, hook_history, hook_trace>>
remover_vars  == <<installed_db, resolver, r_history, r_ret>>
binpkg_vars   == <<binpkg_dir, bp_dest, bp_audit, bp_ret>>
history_vars  == <<journal, h_audit, h_pc, h_ret, h_read>>
cache_vars    == <<cache_fs, c_audit, c_ret>>
resolver_vars == <<rs_recipe, rs_db, rs_installed, rs_ret>>
ledger_vars   == <<hx_cfg, hx_cache, hx_journal, hx_real, hx_sandbox, hx_ret>>
flags_vars    == <<uf_global, uf_package, uf_history, uf_config, uf_calls, uf_ret>>
writers_vars  == <<w_file, w_pc, w_mem, w_audit, w_calls, w_err, w_overlap>>
sandboxes_vars == <<sb_created, sb_dir, sb_snapshot, sb_history, sb_ret>>
vars == <<builder_vars, graph_vars, fakeroot_vars, hook_vars, remover_vars,
          binpkg_vars, history_vars, cache_vars, resolver_vars, ledger_vars, flags_vars, writers_vars, sandboxes_vars, component>>
not_builder_vars  == <<graph_vars, fakeroot_vars, hook_vars, remover_vars,
                       binpkg_vars, history_vars, cache_vars, resolver_vars, ledger_vars, flags_vars, writers_vars, sandboxes_vars, component>>
not_graph_vars    == <<builder_vars, fakeroot_vars, hook_vars, remover_vars,
                       binpkg_vars, history_vars, cache_vars, resolver_vars, ledger_vars, flags_vars, writers_vars, sandboxes_vars, component>>
not_fakeroot_vars == <<builder_vars, graph_vars, hook_vars, remover_vars,
                       binpkg_vars, history_vars, cache_vars, resolver_vars, ledger_vars, flags_vars, writers_vars, sandboxes_vars, component>>
not_sandbox_vars  == <<builder_vars, graph_vars, binpkg_vars, history_vars, cache_vars, resolver_vars, ledger_vars, flags_vars, writers_vars, sandboxes_vars, component>>
not_hook_vars     == <<builder_vars, graph_vars, fakeroot_vars, remover_vars,
                       binpkg_vars, history_vars, cache_vars, resolver_vars, ledger_vars, flags_vars, writers_vars, sandboxes_vars, component>>
not_binpkg_vars   == <<builder_vars, graph_vars, fakeroot_vars, remover_vars,
                       history_vars, cache_vars, resolver_vars, ledger_vars, flags_vars, writers_vars, sandboxes_vars, component>>
not_history_vars  == <<builder_vars, graph_vars, fakeroot_vars, hook_vars, remover_vars,
                       binpkg_vars, cache_vars, resolver_vars, ledger_vars, flags_vars, writers_vars, sandboxes_vars, component>>
not_cache_vars == <<builder_vars, graph_vars, fakeroot_vars, hook_vars, remover_vars, binpkg_vars, history_vars, resolver_vars, ledger_vars, flags_vars, writers_vars, sandboxes_vars, component>>
not_resolver_vars == <<builder_vars, graph_vars, fakeroot_vars, hook_vars, remover_vars, binpkg_vars, history_vars, cache_vars, ledger_vars, flags_vars, writers_vars, sandboxes_vars, component>>
not_ledger_vars == <<builder_vars, graph_vars, fakeroot_vars, hook_vars, remover_vars, binpkg_vars, history_vars, cache_vars, resolver_vars, flags_vars, writers_vars, sandboxes_vars, component>>
not_flags_vars == <<builder_vars, graph_vars, fakeroot_vars, hook_vars, remover_vars, binpkg_vars, history_vars, cache_vars, resolver_vars, ledger_vars, writers_vars, sandboxes_vars, component>>
not_writers_vars == <<builder_vars, graph_vars, fakeroot_vars, hook_vars, remover_vars, binpkg_vars, history_vars, cache_vars, resolver_vars, ledger_vars, flags_vars, sandboxes_vars, component>>
not_sandboxes_vars == <<builder_vars, graph_vars, fakeroot_vars, hook_vars, remover_vars, binpkg_vars, history_vars, cache_vars, resolver_vars, ledger_vars, flags_vars, writers_vars, component>>

\* Dictionaries are functions; these are the empty dict, d[k] = v and d.pop(k).
EmptyMap == [k \in {} |-> 0]
MapPut(d, k, v) == [x \in DOMAIN d \cup {k} |-> IF x = k THEN v ELSE d[x]]
MapDel(d, k) == [x \in DOMAIN d \ {k} |-> d[x]]

Last(s) == s[Len(s)]
Front(s) == SubSeq(s, 1, Len(s) - 1)
IsPrefix(s, t) == Len(s) <= Len(t) /\ SubSeq(t, 1, Len(s)) = s
Range(s) == { s[i] : i \in 1..Len(s) }

(***************************************************************************)
(*                               Builder                                   *)
(***************************************************************************)

\* The files a tree may hold.
BPaths == {"bin/app", "lib/libapp.so"}

\* The six build systems build() dispatches on, one unknown name, and a
\* recipe without one.
DispatchedBuildSystems == {"autotools", "cmake", "meson", "ninja", "rust", "python"}
BuildSystems == DispatchedBuildSystems \cup {"scons", "None"}

\* What the copied source tree holds for the python backend.
SrcKinds == {"setup.py", "pyproject.toml", "neither"}

\* A directory tree: absent, or present with a file -> content map.
AbsentTree == [exists |-> FALSE, files |-> EmptyMap]
Tree(S, c) == [exists |-> TRUE, files |-> [p \in S |-> c]]
OldTrees == {AbsentTree} \cup { Tree(S, "old") : S \in SUBSET BPaths }
StagedTrees == { Tree(S, "new") : S \in SUBSET BPaths }

NoExc == [stage |-> "none", kind |-> "none"]
NoCopy == [todo |-> {}, errors |-> FALSE]

IdleBuilder ==
    /\ b_pc = "idle"
    /\ recipe = [build_system |-> "None", src_kind |-> "neither"]
    /\ dry_run = FALSE
    /\ timeout = 0
    /\ install_prefix = AbsentTree
    /\ dest_path = AbsentTree
    /\ dest_before = AbsentTree
    /\ b_stages = << >>
    /\ b_exc = NoExc
    /\ b_copy = NoCopy

\* Builder.__init__, with the caller about to call build().
InitBuilder ==
    /\ b_pc = "prepare_sandbox"
    /\ recipe \in [build_system : BuildSystems, src_kind : SrcKinds]
    /\ dry_run \in BOOLEAN
    /\ timeout \in {0, 1}
    /\ install_prefix = AbsentTree
    /\ dest_before \in OldTrees
    /\ dest_path = dest_before
    /\ b_stages = << >>
    /\ b_exc = NoExc
    /\ b_copy = NoCopy

\* The order of the statements of build() and then install(): the stage that
\* follows `stage` when it completes without raising.
AfterInstallCommands_skip == "promote"
AfterInstallCommands == "post_install"

NextStage_promote_first(stage) ==
    CASE stage = "prepare_sandbox"   -> "pre_configure"
      [] stage = "pre_configure"     -> "configure_compile"
      [] stage = "configure_compile" -> "post_build"
      [] stage = "post_build"        -> "pre_install"
      [] stage = "pre_install"       -> "staged_install"
      [] stage = "staged_install"    -> "promote"
      [] stage = "promote"           -> "post_install"
      [] stage = "post_install"      -> "done"

NextStage(stage) ==
    CASE stage = "prepare_sandbox"   -> "pre_configure"
      [] stage = "pre_configure"     -> "configure_compile"
      [] stage = "configure_compile" -> "post_build"
      [] stage = "post_build"        -> "pre_install"
      [] stage = "pre_install"       -> "staged_install"
      [] stage = "staged_install"    -> AfterInstallCommands
      [] stage = "post_install"      -> "promote"
      [] stage = "promote"           -> "done"

\* An exception leaves build()/install(): nothing after the raising statement
\* runs (cli.py calls install() only when build() returned).
Raise(stage, kind) ==
    /\ b_pc' = "failed"
    /\ b_exc' = [stage |-> stage, kind |-> kind]

\* Builder.run: the ways one command can end.  A dry run spawns nothing and
\* returns the sentinel; otherwise the command exits 0, exits non-zero
\* (RuntimeError) or, with a timeout set, times out (TimeoutExpired).
RunOutcomes ==
    IF dry_run THEN {"DRY-RUN"}
    ELSE {"ok", "RuntimeError"} \cup (IF timeout > 0 THEN {"TimeoutExpired"} ELSE {})

RunOk(outcome) == outcome \in {"ok", "DRY-RUN"}

\* The commands build() runs for a build system: their number, or the
\* exception the dispatch itself raises.
BuildCommands(r) ==
    CASE r.build_system \in {"autotools", "cmake", "meson"} -> [n |-> 2, exc |-> "none"]
      [] r.build_system \in {"ninja", "rust"}                -> [n |-> 1, exc |-> "none"]
      [] r.build_system = "python" ->
            IF r.src_kind = "neither" THEN [n |-> 0, exc |-> "RuntimeError"]
                                      ELSE [n |-> 1, exc |-> "none"]
      [] OTHER -> [n |-> 0, exc |-> "ValueError"]

\* RecipeCreator.SUPPORTED_BUILD_SYSTEMS, and the membership test of
\* create_base_recipe(package_name, version, build_system) and of
\* validate_recipe on a recipe file with its required fields and no url or
\* sha256: what the call does.
SUPPORTED_BUILD_SYSTEMS == {"autotools", "meson", "cmake", "python", "rust"}
create_base_recipe(build_system) ==
    IF build_system \notin SUPPORTED_BUILD_SYSTEMS THEN "ValueError" ELSE "created"
validate_recipe(r) ==
    IF r.build_system \notin SUPPORTED_BUILD_SYSTEMS THEN "ValueError" ELSE "validated"

\* The commands install() runs: ninja has no branch there.
InstallCommands(r) ==
    CASE r.build_system \in {"autotools", "cmake", "meson", "rust", "python"}
            -> [n |-> 1, exc |-> "none"]
      [] OTHER -> [n |-> 0, exc |-> "ValueError"]

\* build()'s python branch with only a pyproject.toml runs pip install
\* --prefix install_prefix: the one build command that writes the staged tree.
BuildWritesPrefix(r) == r.build_system = "python" /\ r.src_kind = "pyproject.toml"


StartStage(stage) ==
    /\ b_pc = stage
    /\ b_stages' = Append(b_stages, stage)

Completes(stage) ==
    /\ b_pc' = NextStage(stage)
    /\ UNCHANGED b_exc

\* Builder.prepare_sandbox: mkdir(exist_ok) of the sandbox directories, then
\* the copy of recipe.source_dir, which raises when the source is missing.
prepare_sandbox ==
    /\ StartStage("prepare_sandbox")
    /\ install_prefix' = [install_prefix EXCEPT !.exists = TRUE]
    /\ \/ Completes("prepare_sandbox")
       \/ Raise("prepare_sandbox", "OSError")
    /\ UNCHANGED <<recipe, dry_run, timeout, dest_path, dest_before, b_copy>>

\* Builder.apply_hooks: the recipe has no <stage>_hook, or it returns, or it raises.
apply_hooks(stage) ==
    /\ StartStage(stage)
    /\ \E hook \in {"absent", "returns", "raises"} :
          IF hook = "raises" THEN Raise(stage, "HookError") ELSE Completes(stage)
    /\ UNCHANGED <<recipe, dry_run, timeout, install_prefix, dest_path, dest_before, b_copy>>

pre_configure_hook == apply_hooks("pre_configure")
post_build_hook    == apply_hooks("post_build")
pre_install_hook   == apply_hooks("pre_install")
post_install_hook  == apply_hooks("post_install")

\* A run of `c.n` commands through Builder.run, the first failure raising.  A
\* command that was spawned and writes the prefix leaves some staged tree there.
RunCommands(stage, c, writes) ==
    IF c.exc # "none"
    THEN Raise(stage, c.exc) /\ UNCHANGED install_prefix
    ELSE \E k \in 0..c.n : \E last \in RunOutcomes :
            /\ (k = c.n) = RunOk(last)
            /\ IF k = c.n THEN Completes(stage) ELSE Raise(stage, last)
            /\ IF writes /\ ~dry_run
               THEN \E t \in StagedTrees : install_prefix' = t
               ELSE UNCHANGED install_prefix

\* build(): the dispatch on recipe.build_system and its configure/compile commands.
configure_compile ==
    /\ StartStage("configure_compile")
    /\ RunCommands("configure_compile", BuildCommands(recipe), BuildWritesPrefix(recipe))
    /\ UNCHANGED <<recipe, dry_run, timeout, dest_path, dest_before, b_copy>>

\* install(): the dispatch on recipe.build_system and its install command,
\* which writes under install_prefix.
staged_install ==
    /\ StartStage("staged_install")
    /\ RunCommands("staged_install", InstallCommands(recipe), TRUE)
    /\ UNCHANGED <<recipe, dry_run, timeout, dest_path, dest_before, b_copy>>

\* install(), "Copiar instalação para destino final": the exists() test.
promote ==
    /\ StartStage("promote")
    /\ b_pc' = IF dest_path.exists THEN "rmtree" ELSE "copytree"
    /\ UNCHANGED <<recipe, dry_run, timeout, install_prefix, dest_path, dest_before,
                   b_exc, b_copy>>

\* shutil.rmtree(dest_path): one entry at a time, the directory last; an
\* entry that cannot be removed raises and leaves the rest.
rmtree_dest ==
    /\ b_pc = "rmtree"
    /\ IF DOMAIN dest_path.files # {}
       THEN \/ /\ \E p \in DOMAIN dest_path.files :
                    dest_path' = [dest_path EXCEPT !.files = MapDel(@, p)]
               /\ UNCHANGED <<b_pc, b_exc>>
            \/ /\ Raise("promote", "OSError")
               /\ UNCHANGED dest_path
       ELSE /\ dest_path' = AbsentTree
            /\ b_pc' = "copytree"
            /\ UNCHANGED b_exc
    /\ UNCHANGED <<recipe, dry_run, timeout, install_prefix, dest_before, b_stages, b_copy>>

\* shutil.copytree(install_prefix, dest_path): makedirs of the destination.
copytree_mkdir ==
    /\ b_pc = "copytree"
    /\ dest_path' = [exists |-> TRUE, files |-> EmptyMap]
    /\ b_copy' = [todo |-> DOMAIN install_prefix.files, errors |-> FALSE]
    /\ b_pc' = "copy2"
    /\ UNCHANGED <<recipe, dry_run, timeout, install_prefix, dest_before, b_stages, b_exc>>

\* copytree's loop: one file per step; a file that cannot be copied is noted
\* and the loop goes on.
copytree_copy ==
    /\ b_pc = "copy2"
    /\ \E p \in b_copy.todo :
          \/ /\ dest_path' = [dest_path EXCEPT !.files = MapPut(@, p, install_prefix.files[p])]
             /\ b_copy' = [b_copy EXCEPT !.todo = @ \ {p}]
          \/ /\ b_copy' = [todo |-> b_copy.todo \ {p}, errors |-> TRUE]
             /\ UNCHANGED dest_path
    /\ UNCHANGED <<b_pc, recipe, dry_run, timeout, install_prefix, dest_before, b_stages, b_exc>>

\* copytree's end: the noted errors are raised, else install() returns.
copytree_end ==
    /\ b_pc = "copy2"
    /\ b_copy.todo = {}
    /\ IF b_copy.errors THEN Raise("promote", "shutil.Error") ELSE Completes("promote")
    /\ UNCHANGED <<recipe, dry_run, timeout, install_prefix, dest_path, dest_before,
                   b_stages, b_copy>>


NextBuilder ==
    \/ prepare_sandbox /\ UNCHANGED not_builder_vars
    \/ pre_configure_hook /\ UNCHANGED not_builder_vars
    \/ configure_compile /\ UNCHANGED not_builder_vars
    \/ post_build_hook /\ UNCHANGED not_builder_vars
    \/ pre_install_hook /\ UNCHANGED not_builder_vars
    \/ staged_install /\ UNCHANGED not_builder_vars
    \/ post_install_hook /\ UNCHANGED not_builder_vars
    \/ promote /\ UNCHANGED not_builder_vars
    \/ rmtree_dest /\ UNCHANGED not_builder_vars
    \/ copytree_mkdir /\ UNCHANGED not_builder_vars
    \/ copytree_copy /\ UNCHANGED not_builder_vars
    \/ copytree_end /\ UNCHANGED not_builder_vars

(***************************************************************************)
(*                           DependencyGraph                               *)
(***************************************************************************)

Pkgs == {"a", "b", "c"}
Weights == {1, 2}

\* The longest `dependencies` argument of one add_package call, and the
\* number of add_package/remove_package calls of a run.
MaxDeps == 1
MaxGraphOps == 2

\* An adjacency dict {dep: weight} keeps insertion order: a list of <<dep, weight>>.
AdjKeys(adj) == { adj[i][1] : i \in 1..Len(adj) }
AdjSeq(adj) == [i \in 1..Len(adj) |-> adj[i][1]]
\* adj[dep] = w: an existing key keeps its place.
AdjSet(adj, dep, w) ==
    IF dep \in AdjKeys(adj)
    THEN [i \in 1..Len(adj) |-> IF adj[i][1] = dep THEN <<dep, w>> ELSE adj[i]]
    ELSE Append(adj, <<dep, w>>)
\* adj.pop(dep, None)
AdjPop(adj, dep) == SelectSeq(adj, LAMBDA e : e[1] # dep)

\* self.graph.get(node, {}) as the list of its keys.
Neighbors(g, node) == IF node \in DOMAIN g THEN AdjSeq(g[node]) ELSE << >>

\* The edges p -> d of a graph dict: p depends on d.
Edges(g) == { <<p, d>> \in Pkgs \X Pkgs : p \in DOMAIN g /\ d \in AdjKeys(g[p]) }

\* The arguments add_package is called with: no dependencies, a list of
\* package names (with the default weight), or a dict dep -> weight.
DistinctSeqs(S, n) ==
    { q \in UNION { [1..k -> S] : k \in 1..n } : \A i, j \in 1..Len(q) : i # j => q[i] # q[j] }
DepLists == { [kind |-> "list", items |-> [i \in 1..Len(q) |-> <<q[i], 0>>]] :
                q \in DistinctSeqs(Pkgs, MaxDeps) }
DepDicts == { [kind |-> "dict", items |-> q] :
                q \in { x \in UNION { [1..k -> Pkgs \X Weights] : k \in 1..MaxDeps } :
                          \A i, j \in 1..Len(x) : i # j => x[i][1] # x[j][1] } }
DepArgs == {[kind |-> "none", items |-> << >>]} \cup DepLists \cup DepDicts

\* The loops of add_package: self.graph[package][dep] = w; self.nodes.add(dep).
RECURSIVE AddDeps(_, _, _, _)
AddDeps(adj, items, isDict, weight) ==
    IF items = << >> THEN adj
    ELSE AddDeps(AdjSet(adj, Head(items)[1], IF isDict THEN Head(items)[2] ELSE weight),
                 Tail(items), isDict, weight)

GraphAfterAdd(g, package, deps, weight) ==
    IF deps.kind = "none" THEN g
    ELSE MapPut(g, package,
                AddDeps(IF package \in DOMAIN g THEN g[package] ELSE << >>,
                        deps.items, deps.kind = "dict", weight))

NodesAfterAdd(ns, package, deps) ==
    ns \cup {package} \cup { deps.items[i][1] : i \in 1..Len(deps.items) }

\* remove_package: self.graph.pop(package); deps.pop(package) in every
\* adjacency; self.nodes.discard(package).
GraphAfterRemove_entry_only(g, package) == [p \in DOMAIN g \ {package} |-> g[p]]
GraphAfterRemove(g, package) ==
    [p \in DOMAIN g \ {package} |-> AdjPop(g[p], package)]

\* to_dict: the adjacency of every key of self.graph, copied; self.nodes is
\* not part of it.
to_dict(g) == [node \in DOMAIN g |-> g[node]]

\* json.dumps / json.loads of a dict whose keys are package names and whose
\* values are dicts of integer weights: the text holds the keys, the
\* dependencies and the weights, and parses back to them.
json_dumps(d) == <<"json", [k \in DOMAIN d |-> d[k]]>>
json_loads(text) == text[2]

\* from_dict(d): self.graph is a copy of d; self.nodes its keys and the keys
\* of its adjacencies.
NodesOfDict(d) == DOMAIN d \cup UNION { AdjKeys(d[k]) : k \in DOMAIN d }
from_dict(d) == [graph |-> [k \in DOMAIN d |-> d[k]], nodes |-> NodesOfDict(d)]

to_json(g) == json_dumps(to_dict(g))
from_json(json_str) == from_dict(json_loads(json_str))

\* The dicts from_dict is called with.
FromDicts ==
    { EmptyMap,
      MapPut(EmptyMap, "a", << >>),
      MapPut(EmptyMap, "a", << <<"b", 1>> >>),
      MapPut(MapPut(EmptyMap, "a", << <<"b", 2>> >>), "b", << <<"a", 1>>, <<"c", 1>> >>) }

NoQuery == [op |-> "none", raised |-> FALSE, order |-> << >>, found |-> FALSE]
NoGraphCall ==
    [op |-> "none", package |-> "-", raised |-> FALSE,
     before |-> [graph |-> EmptyMap, nodes |-> {}],
     loaded |-> [graph |-> EmptyMap, nodes |-> {}]]
GraphCall(op, raised) == [NoGraphCall EXCEPT !.op = op, !.raised = raised]

IdleGraph ==
    /\ graph = EmptyMap
    /\ nodes = {}
    /\ g_ret = [NoQuery EXCEPT !.op = "idle"]
    /\ g_calls = 0
    /\ g_plain = FALSE
    /\ g_io = [op |-> "idle"]

\* DependencyGraph.__init__
InitGraph ==
    /\ graph = EmptyMap
    /\ nodes = {}
    /\ g_ret = NoQuery
    /\ g_calls = 0
    /\ g_plain = FALSE
    /\ g_io = NoGraphCall

\* The orders in which a Python set of names may be iterated.
Orders(S) == { q \in [1..Cardinality(S) -> S] : \A i, j \in 1..Len(q) : i # j => q[i] # q[j] }

\* topo_sort: in_degree[dep] += 1 for every dep of every adjacency.
InDegree(g, ns) == [n \in ns |-> Cardinality({ p \in DOMAIN g : n \in AdjKeys(g[p]) })]

\* The inner loop of topo_sort over the neighbours of the node just emitted.
RECURSIVE Relax(_, _, _)
Relax(nbrs, in_degree, queue) ==
    IF nbrs = << >> THEN [in_degree |-> in_degree, queue |-> queue]
    ELSE LET n == Head(nbrs)
             d == [in_degree EXCEPT ![n] = @ - 1]
         IN Relax(Tail(nbrs), d, IF d[n] = 0 THEN Append(queue, n) ELSE queue)

\* The while loop of topo_sort.
RECURSIVE Kahn(_, _, _, _)
Kahn(g, queue, order, in_degree) ==
    IF queue = << >> THEN order
    ELSE LET node == Head(queue)
             r == Relax(Neighbors(g, node), in_degree, Tail(queue))
         IN Kahn(g, r.queue, Append(order, node), r.in_degree)

\* topo_sort with self.nodes iterated in `iter`: the emitted order, and
\* whether the RuntimeError of the final length test is raised.
topo_sort(g, ns, iter) ==
    LET in_degree == InDegree(g, ns)
        queue == SelectSeq(iter, LAMBDA n : in_degree[n] = 0)
        order == Kahn(g, queue, << >>, in_degree)
    IN [raised |-> Len(order) # Cardinality(ns), order |-> order]

\* detect_cycles: dfs(node) and its loop over the neighbours, threading
\* visited and rec_stack.
\* rec_stack.remove(node) on the way out of dfs.
PopRecStack_keep(rec_stack, node) == rec_stack
PopRecStack(rec_stack, node) == rec_stack \ {node}

RECURSIVE dfs(_, _, _, _)
RECURSIVE dfs_neighbors(_, _, _, _)
dfs(g, node, visited, rec_stack) ==
    LET r == dfs_neighbors(g, Neighbors(g, node), visited \cup {node}, rec_stack \cup {node})
    IN IF r.found THEN r ELSE [r EXCEPT !.rec_stack = PopRecStack(@, node)]

dfs_neighbors(g, nbrs, visited, rec_stack) ==
    IF nbrs = << >> THEN [found |-> FALSE, visited |-> visited, rec_stack |-> rec_stack]
    ELSE LET neighbor == Head(nbrs) IN
         IF neighbor \notin visited
         THEN LET r == dfs(g, neighbor, visited, rec_stack)
              IN IF r.found THEN r ELSE dfs_neighbors(g, Tail(nbrs), r.visited, r.rec_stack)
         ELSE IF neighbor \in rec_stack
              THEN [found |-> TRUE, visited |-> visited, rec_stack |-> rec_stack]
              ELSE dfs_neighbors(g, Tail(nbrs), visited, rec_stack)

\* The outer loop of detect_cycles over self.nodes, iterated in `iter`.
RECURSIVE detect_loop(_, _, _, _)
detect_loop(g, iter, visited, rec_stack) ==
    IF iter = << >> THEN FALSE
    ELSE IF Head(iter) \in visited THEN detect_loop(g, Tail(iter), visited, rec_stack)
    ELSE LET r == dfs(g, Head(iter), visited, rec_stack)
         IN IF r.found THEN TRUE ELSE detect_loop(g, Tail(iter), r.visited, r.rec_stack)

detect_cycles(g, iter) == detect_loop(g, iter, {}, {})

\* ---- the operations ----

\* add_package.  On the plain dict that from_dict leaves, self.graph[package]
\* of a package without an entry raises KeyError, after self.nodes.add(package).
graph_add_package ==
    /\ g_calls < MaxGraphOps
    /\ \E package \in Pkgs, deps \in DepArgs, weight \in Weights :
          /\ deps.kind # "list" => weight = 1
          /\ IF g_plain /\ deps.kind # "none" /\ package \notin DOMAIN graph
             THEN /\ graph' = graph
                  /\ nodes' = nodes \cup {package}
                  /\ g_io' = GraphCall("add_package", TRUE)
             ELSE /\ graph' = GraphAfterAdd(graph, package, deps, weight)
                  /\ nodes' = NodesAfterAdd(nodes, package, deps)
                  /\ g_io' = GraphCall("add_package", FALSE)
    /\ g_calls' = g_calls + 1
    /\ g_ret' = NoQuery
    /\ UNCHANGED g_plain

graph_remove_package ==
    /\ g_calls < MaxGraphOps
    /\ \E package \in Pkgs :
          /\ graph' = GraphAfterRemove(graph, package)
          /\ nodes' = nodes \ {package}
          /\ g_io' = [GraphCall("remove_package", FALSE)
                        EXCEPT !.package = package,
                               !.before = [graph |-> graph, nodes |-> nodes]]
    /\ g_calls' = g_calls + 1
    /\ g_ret' = NoQuery
    /\ UNCHANGED g_plain

\* from_dict(d) on this graph.
graph_from_dict ==
    /\ g_calls < MaxGraphOps
    /\ \E d \in FromDicts :
          /\ graph' = from_dict(d).graph
          /\ nodes' = from_dict(d).nodes
    /\ g_plain' = TRUE
    /\ g_io' = GraphCall("from_dict", FALSE)
    /\ g_calls' = g_calls + 1
    /\ g_ret' = NoQuery

\* A fresh DependencyGraph is loaded with from_json(g.to_json()), as the
\* first thing done with the graph after a call that changed it.
call_round_trip ==
    /\ g_io.op # "round_trip"
    /\ g_ret = NoQuery
    /\ g_io' = [GraphCall("round_trip", FALSE)
                  EXCEPT !.loaded = from_json(to_json(graph))]
    /\ UNCHANGED <<graph, nodes, g_ret, g_calls, g_plain>>

call_topo_sort ==
    /\ g_io.op # "round_trip"
    /\ \E iter \in Orders(nodes) :
          LET r == topo_sort(graph, nodes, iter)
          IN g_ret' = [op |-> "topo_sort", raised |-> r.raised,
                       order |-> IF r.raised THEN << >> ELSE r.order, found |-> FALSE]
    /\ UNCHANGED <<graph, nodes, g_calls, g_plain, g_io>>

call_detect_cycles ==
    /\ g_io.op # "round_trip"
    /\ \E iter \in Orders(nodes) :
          g_ret' = [op |-> "detect_cycles", raised |-> FALSE, order |-> << >>,
                    found |-> detect_cycles(graph, iter)]
    /\ UNCHANGED <<graph, nodes, g_calls, g_plain, g_io>>

NextGraph ==
    \/ graph_add_package /\ UNCHANGED not_graph_vars
    \/ graph_remove_package /\ UNCHANGED not_graph_vars
    \/ call_topo_sort /\ UNCHANGED not_graph_vars
    \/ call_detect_cycles /\ UNCHANGED not_graph_vars
    \/ graph_from_dict /\ UNCHANGED not_graph_vars
    \/ call_round_trip /\ UNCHANGED not_graph_vars


(***************************************************************************)
(*                               FakeRoot                                  *)
(***************************************************************************)

\* Paths under FakeRoot.dest_path, the metadata a file can have
\* ({size, mtime, mode}), and the targets a symlink can point to: one exists,
\* one does not.
SPaths == {"src/a", "usr/bin/b"}

\* The link_name arguments of create_symlink.  dest_path / link_name keeps a
\* ".." component, so the second one is a manifest key of its own although
\* the file system resolves it to usr/bin/b.
LinkNames == {"usr/bin/b", "usr/bin/../bin/b"}

\* The place on disk a manifest key names.
OnDisk(f) == IF f = "usr/bin/../bin/b" THEN "usr/bin/b" ELSE f
Metas == {"m1", "m2"}
Targets == {"/opt/live", "/opt/missing"}
TargetExists(t) == t = "/opt/live"

\* The longest snapshot list, and the longest source_files list of one call.
MaxSnapshots == 2
MaxSources == 1

\* What a path holds on disk, and what the manifest records for it
\* (_get_file_metadata's dict, or {"symlink": target}).
Absent == [kind |-> "none", meta |-> "-", target |-> "-"]
File(m) == [kind |-> "file", meta |-> m, target |-> "-"]
Symlink(t) == [kind |-> "symlink", meta |-> "-", target |-> t]

\* Path.exists() follows symlinks; Path.is_symlink() does not.
PathExists(e) == e.kind = "file" \/ (e.kind = "symlink" /\ TargetExists(e.target))
IsSymlink(e) == e.kind = "symlink"

\* A source file handed to install_files: where it is (resolved, so never with
\* a ".."), its metadata, whether it exists.  usr/bin/b comes in two versions.
Sources == [path : {"usr/bin/b"}, meta : Metas, exists : {TRUE}]
             \cup [path : {"src/a"}, meta : {"m1"}, exists : BOOLEAN]
SourceLists == UNION { [1..k -> Sources] : k \in 1..MaxSources }

NoRet(op) == [op |-> op, last_snap |-> [files |-> EmptyMap], to_remove |-> {}, raised |-> FALSE]

IdleFakeRoot ==
    /\ installed_files = EmptyMap
    /\ snapshots = << >>
    /\ sandbox_fs = [p \in SPaths |-> Absent]
    /\ root_exists = FALSE
    /\ fr_ret = NoRet("idle")
    /\ fr_phase = "none"

\* FakeRoot.__init__: _ensure_dest_path creates the root; nothing is installed.
InitFakeRoot ==
    /\ installed_files = EmptyMap
    /\ snapshots = << >>
    /\ sandbox_fs = [p \in SPaths |-> Absent]
    /\ root_exists = TRUE
    /\ fr_ret = NoRet("init")
    /\ fr_phase = "none"

\* The loop of install_files over source_files.  shutil.copy2 onto a path
\* that is a symlink writes through it: to the target when it exists, and
\* fails when it does not; dst.stat() then reads the written file.
RECURSIVE InstallLoop(_, _, _, _)
InstallLoop(files, overwrite, manifest, fs) ==
    IF files = << >> THEN [installed_files |-> manifest, fs |-> fs, raised |-> FALSE]
    ELSE LET src == Head(files)
             dst == src.path
         IN IF ~src.exists THEN InstallLoop(Tail(files), overwrite, manifest, fs)
            ELSE IF ~overwrite /\ PathExists(fs[dst])
                 THEN InstallLoop(Tail(files), overwrite, manifest, fs)
            ELSE IF IsSymlink(fs[dst]) /\ ~TargetExists(fs[dst].target)
                 THEN [installed_files |-> manifest, fs |-> fs, raised |-> TRUE]
            ELSE InstallLoop(Tail(files), overwrite,
                             MapPut(manifest, dst, File(src.meta)),
                             IF IsSymlink(fs[dst]) THEN fs
                                                   ELSE [fs EXCEPT ![dst] = File(src.meta)])

\* snapshot(): a copy of the manifest is appended.
SnapshotsAfterSnapshot(snaps, manifest) == Append(snaps, [files |-> manifest])

\* rollback(): last_snap = self.snapshots.pop()
LastSnap_oldest(snaps) == snaps[1]
LastSnap(snaps) == snaps[Len(snaps)]

SnapshotsAfterPop(snaps) == SubSeq(snaps, 1, Len(snaps) - 1)

\* rollback(): to_remove = current_files - snapshot_files
ToRemove(manifest, last_snap) == DOMAIN manifest \ DOMAIN last_snap.files

\* rollback()'s loop body on disk: f.exists() guards the unlink.
UnlinkIfExists(e) == IF PathExists(e) THEN Absent ELSE e

\* rollback() as a function of the FakeRoot state.
Rollback(manifest, snaps, fs) ==
    IF snaps = << >>
    THEN [installed_files |-> manifest, snapshots |-> snaps, fs |-> fs,
          last_snap |-> [files |-> EmptyMap], to_remove |-> {}]
    ELSE LET last_snap == LastSnap(snaps)
             to_remove == ToRemove(manifest, last_snap)
         IN [installed_files |-> [f \in DOMAIN manifest \ to_remove |-> manifest[f]],
             snapshots |-> SnapshotsAfterPop(snaps),
             fs |-> [p \in SPaths |-> IF \E f \in to_remove : OnDisk(f) = p
                                      THEN UnlinkIfExists(fs[p]) ELSE fs[p]],
             last_snap |-> last_snap,
             to_remove |-> to_remove]

\* ---- the operations ----

\* install_files(source_files, overwrite): what the loop leaves, and the
\* dst.parent.mkdir(parents=True) of every source that exists.
InstallFiles(source_files, overwrite, manifest, fs, root) ==
    LET r == InstallLoop(source_files, overwrite, manifest, fs)
    IN [installed_files |-> r.installed_files, fs |-> r.fs, raised |-> r.raised,
        root |-> (root \/ \E i \in 1..Len(source_files) : source_files[i].exists)]

install_files ==
    /\ \E r \in { InstallFiles(source_files, overwrite, installed_files, sandbox_fs, root_exists) :
                    source_files \in SourceLists, overwrite \in BOOLEAN } :
          /\ installed_files' = r.installed_files
          /\ sandbox_fs' = r.fs
          /\ root_exists' = r.root
          /\ fr_ret' = [NoRet("install_files") EXCEPT !.raised = r.raised]
    /\ fr_phase' = IF fr_phase = "snapshot" THEN "snapshot" ELSE "none"
    /\ UNCHANGED snapshots

create_symlink ==
    /\ \E target \in Targets, link_name \in LinkNames :
          /\ sandbox_fs' = [sandbox_fs EXCEPT ![OnDisk(link_name)] = Symlink(target)]
          /\ installed_files' = MapPut(installed_files, link_name, Symlink(target))
    /\ root_exists' = TRUE
    /\ fr_ret' = NoRet("create_symlink")
    /\ fr_phase' = IF fr_phase = "snapshot" THEN "snapshot" ELSE "none"
    /\ UNCHANGED snapshots

snapshot ==
    /\ Len(snapshots) < MaxSnapshots
    /\ snapshots' = SnapshotsAfterSnapshot(snapshots, installed_files)
    /\ fr_ret' = NoRet("snapshot")
    /\ fr_phase' = "snapshot"
    /\ UNCHANGED <<installed_files, sandbox_fs, root_exists>>

rollback ==
    /\ LET r == Rollback(installed_files, snapshots, sandbox_fs)
       IN /\ installed_files' = r.installed_files
          /\ snapshots' = r.snapshots
          /\ sandbox_fs' = r.fs
          /\ fr_ret' = [op |-> "rollback", last_snap |-> r.last_snap,
                        to_remove |-> r.to_remove, raised |-> FALSE]
    /\ fr_phase' = IF fr_phase = "snapshot" THEN "rolled_back" ELSE "none"
    /\ UNCHANGED root_exists

cleanup ==
    /\ IF root_exists
       THEN /\ sandbox_fs' = [p \in SPaths |-> Absent]
            /\ root_exists' = FALSE
            /\ installed_files' = EmptyMap
            /\ snapshots' = << >>
       ELSE UNCHANGED <<sandbox_fs, root_exists, installed_files, snapshots>>
    /\ fr_ret' = NoRet("cleanup")
    /\ fr_phase' = "none"

NextFakeRoot ==
    \/ install_files /\ UNCHANGED not_fakeroot_vars
    \/ create_symlink /\ UNCHANGED not_fakeroot_vars
    \/ snapshot /\ UNCHANGED not_fakeroot_vars
    \/ rollback /\ UNCHANGED not_fakeroot_vars
    \/ cleanup /\ UNCHANGED not_fakeroot_vars


(***************************************************************************)
(*                   Remover, resolver and HookManager                     *)
(***************************************************************************)

\* The packages of the installed database and the USE flag that may gate a
\* dependency ("" is no gate).
RPkgs == {"a", "b"}
Flags == {"", "ssl"}

\* The longest Remover.history of a run, and the longest list handed to
\* remove_packages.
MaxRemovals == 2
MaxBatch == 2

\* The methods class DependencyResolver defines.
DependencyResolverMethods ==
    {"parse_dependencies", "build_graph", "resolve", "find_missing",
     "find_reverse_dependencies", "get_subgraph", "audit", "export_graph",
     "import_graph", "print_graph"}

\* The resolver objects a Remover is constructed with, as the set of methods
\* they answer to: a DependencyResolver, or one that also answers to the
\* get_reverse_dependencies that _check_dependencies calls (a subclass or a
\* stand-in, returning what find_reverse_dependencies returns).
Resolvers ==
    {DependencyResolverMethods, DependencyResolverMethods \cup {"get_reverse_dependencies"}}

\* parse_dependencies(recipe, use_flags): the deps whose gate is empty or in
\* use_flags (use_flags = {} stands for None too: `use_flags and ...`).
parse_dependencies(rec, use_flags) ==
    { d \in DOMAIN rec.deps : rec.deps[d] = "" \/ rec.deps[d] \in use_flags }

\* find_reverse_dependencies: the installed packages whose parsed
\* dependencies hold package_name.
find_reverse_dependencies(db, package_name) ==
    { pkg \in DOMAIN db : package_name \in parse_dependencies(db[pkg], {}) }

\* Remover._check_dependencies: the call of resolver.get_reverse_dependencies
\* and the test `deps and not force`.  The exception raised, if any.
_check_dependencies(rs, db, package, force) ==
    IF "get_reverse_dependencies" \notin rs
    THEN [raised |-> "AttributeError", deps |-> {}]
    ELSE LET deps == find_reverse_dependencies(db, package)
         IN IF deps # {} /\ ~force
            THEN [raised |-> "Conflict", deps |-> deps]
            ELSE [raised |-> "none", deps |-> deps]

\* ---- HookManager ----

\* A registered Hook: its stage, package ("None" for every package),
\* priority, condition (none, or a callable that returns true or false or
\* raises), func (none, or a callable that returns or raises) and commands
\* (each exits 0 or not); rollback is None unless given (none, or a callable
\* that returns or raises).
Hook(stage, package, priority, condition, func, commands) ==
    [stage |-> stage, package |-> package, priority |-> priority,
     condition |-> condition, func |-> func, commands |-> commands,
     rollback |-> "none"]
HookWithRollback(hook, rb) == [hook EXCEPT !.rollback = rb]

\* run_hooks: applicable_hooks, as positions in self.hooks.
Applicable_any_package(hs, stage, package) ==
    { i \in 1..Len(hs) : hs[i].stage = stage }
Applicable(hs, stage, package) ==
    { i \in 1..Len(hs) : hs[i].stage = stage /\ hs[i].package \in {"None", package} }

\* run_hooks: sorted(..., key=lambda h: h.priority) is stable; the hook that
\* comes first among those still to run.
NextHook_registration(hs, todo) == CHOOSE x \in todo : \A y \in todo : x <= y
NextHook(hs, todo) ==
    CHOOSE x \in todo : \A y \in todo :
        hs[x].priority < hs[y].priority \/ (hs[x].priority = hs[y].priority /\ x <= y)

\* The commands of a hook that get run: up to and including the first that fails.
CommandsRun_all(commands) == Len(commands)
CommandsRun(commands) ==
    IF \E k \in 1..Len(commands) : commands[k] = "fail"
    THEN (CHOOSE k \in 1..Len(commands) :
            commands[k] = "fail" /\ \A j \in 1..(k - 1) : commands[j] = "ok")
    ELSE Len(commands)

\* The try block of run_hooks for the hook at position i and its except
\* clause: what it executes, in order (func, commands, and after a failure the
\* rollback if there is one, whose own exception is caught), and the status
\* its history entry gets.
HookStatus(h) ==
    IF h.func = "raises" \/ \E k \in 1..Len(h.commands) : h.commands[k] = "fail"
    THEN "error" ELSE "success"
HookEvents(hs, i) ==
    (IF hs[i].func = "none" THEN << >> ELSE << <<i, "func">> >>)
    \o (IF hs[i].func = "raises" THEN << >>
        ELSE [k \in 1..CommandsRun(hs[i].commands) |-> <<i, "command">>])
    \o (IF HookStatus(hs[i]) = "error" /\ hs[i].rollback # "none"
        THEN << <<i, "rollback">> >> ELSE << >>)

\* The loop of run_hooks over applicable_hooks.  A condition that raises is
\* outside the try block: it ends run_hooks with the exception.
RECURSIVE RunHooks(_, _, _, _)
RunHooks(hs, todo, package, st) ==
    IF todo = {} THEN st
    ELSE LET i == NextHook(hs, todo)
         IN CASE hs[i].condition = "false" -> RunHooks(hs, todo \ {i}, package, st)
              [] hs[i].condition = "raises" -> [st EXCEPT !.raised = "ConditionError"]
              [] OTHER ->
                    RunHooks(hs, todo \ {i}, package,
                        [history |-> Append(st.history,
                                        [stage |-> hs[i].stage, package |-> package,
                                         status |-> HookStatus(hs[i])]),
                         trace |-> st.trace \o HookEvents(hs, i)
                                       \o << <<i, "history">> >>,
                         raised |-> "none"])

\* HookManager.run_hooks(stage, package) from a history and a trace so far.
run_hooks(hs, stage, package, history, trace) ==
    RunHooks(hs, Applicable(hs, stage, package), package,
             [history |-> history, trace |-> trace, raised |-> "none"])

\* HookManager.__init__: no hook registered, no history.
InitHookManager ==
    /\ hooks = << >>
    /\ hook_history = << >>
    /\ hook_trace = << >>

\* The most hooks registered before run_hooks is called.
MaxHooks == 3

\* The hooks a caller registers: for stage pre_build, for every package or
\* for package a, with one of three priorities; the hook's func appends to a
\* list and its command succeeds, or its condition is false, or it has two
\* commands the first of which fails and a rollback that raises; or, for
\* every package, its func raises and it has no rollback.
Registrable ==
    { HookWithRollback(Hook("pre_build", package, priority, b[1], b[2], b[3]), b[4]) :
        package \in {"None", "a"}, priority \in {10, 20, 30},
        b \in { <<"none", "ok", <<"ok">>, "ok">>,
                <<"false", "ok", <<"ok">>, "ok">>,
                <<"none", "none", <<"fail", "ok">>, "raises">> } }
    \cup { Hook("pre_build", "None", priority, "none", "raises", <<"ok">>) :
             priority \in {10, 20, 30} }

\* HookManager.register_hook: the hook is appended to self.hooks.
register_hook ==
    /\ Len(hooks) < MaxHooks
    /\ hook_trace = << >>
    /\ \E hook \in Registrable : hooks' = Append(hooks, hook)
    /\ UNCHANGED <<hook_history, hook_trace>>

\* A call of HookManager.run_hooks(stage, package).
call_run_hooks ==
    /\ Len(hook_trace) = 0
    /\ \E stage \in {"pre_build", "post_build"}, package \in {"a", "b"} :
          LET r == run_hooks(hooks, stage, package, hook_history, << >>)
          IN /\ hook_history' = r.history
             /\ hook_trace' = << <<0, stage, package>> >> \o r.trace
    /\ UNCHANGED hooks

NextHooks ==
    \/ register_hook /\ UNCHANGED not_hook_vars
    \/ call_run_hooks /\ UNCHANGED not_hook_vars

\* ---- Remover ----

\* installed_db.get_files(package)
get_files(db, package) == IF package \in DOMAIN db THEN db[package].files ELSE {}

\* Remover._remove_files on disk: each file of the package that exists is
\* removed unless its removal fails (`stuck`), which is logged.
RemovedFiles_attempted(db, package, fs, stuck) ==
    { f \in get_files(db, package) : PathExists(fs[f]) }
RemovedFiles(db, package, fs, stuck) ==
    { f \in get_files(db, package) : PathExists(fs[f]) /\ f \notin stuck }

\* The installed databases of a run: a and b installed with their files;
\* neither depends on the other, or b depends on a (with or without a flag
\* gate), or a depends on b.  In one more database, without dependencies, a
\* owns a second file.
Recipes(others) ==
    { [deps |-> d, files |-> {}] :
        d \in {EmptyMap} \cup { [x \in {o} |-> fl] : o \in others, fl \in Flags } }
Databases ==
    { [p \in RPkgs |-> [deps |-> r[p].deps,
                        files |-> IF p = "a" THEN {"src/a"} ELSE {"usr/bin/b"}]] :
        r \in { x \in [RPkgs -> Recipes(RPkgs)] :
                  /\ \A p \in RPkgs : p \notin DOMAIN x[p].deps
                  /\ x["a"].deps = EmptyMap \/ x["b"].deps = EmptyMap
                  /\ "b" \in DOMAIN x["a"].deps => x["a"].deps["b"] = "" } }
    \cup { [p \in RPkgs |-> [deps |-> EmptyMap,
                             files |-> IF p = "a" THEN {"src/a", "usr/bin/b"}
                                                  ELSE {"usr/bin/b"}]] }

\* The hooks registered with the Remover's HookManager.
HookSets ==
    { << >>,
      <<Hook("pre_remove", "None", 10, "none", "ok", << >>)>>,
      <<Hook("post_remove", "a", 20, "none", "ok", << >>),
        Hook("pre_remove", "None", 10, "none", "none", <<"fail">>)>>,
      <<Hook("post_remove", "None", 10, "raises", "ok", << >>)>> }

NoCall ==
    [op |-> "none", package |-> "-", force |-> FALSE, result |-> FALSE, error |-> "none",
     dependents |-> {}, packages |-> << >>, results |-> EmptyMap,
     steps |-> << >>, stuck |-> {}]

IdleRemover ==
    /\ hooks = << >>
    /\ hook_history = << >>
    /\ hook_trace = << >>
    /\ installed_db = EmptyMap
    /\ resolver = {}
    /\ r_history = << >>
    /\ r_ret = NoCall

\* Remover.__init__ over an installed database, a resolver and a HookManager
\* with its hooks registered.
InitRemover ==
    /\ hooks \in HookSets
    /\ hook_history = << >>
    /\ hook_trace = << >>
    /\ installed_db \in Databases
    /\ resolver \in Resolvers
    /\ r_history = << >>
    /\ r_ret = NoCall

\* The state a remove_package call works on.
RemoverState ==
    [installed_files |-> installed_files, snapshots |-> snapshots,
     sandbox_fs |-> sandbox_fs, fr_ret |-> fr_ret, installed_db |-> installed_db,
     r_history |-> r_history, hook_history |-> hook_history, hook_trace |-> << >>,
     r_ret |-> r_ret, steps |-> << >>]

\* The except block of remove_package: self._rollback(snapshot), the error
\* entry, return False.  `s` is the state the exception left, s.steps the
\* statements of remove_package executed so far, in order.
RemoveFailed(s, package, force, error, dependents) ==
    LET r == Rollback(s.installed_files, s.snapshots, s.sandbox_fs)
    IN [s EXCEPT !.installed_files = r.installed_files,
                 !.snapshots = r.snapshots,
                 !.sandbox_fs = r.fs,
                 !.fr_ret = [op |-> "rollback", last_snap |-> r.last_snap,
                             to_remove |-> r.to_remove, raised |-> FALSE],
                 !.r_history = Append(@, [package |-> package, removed_files |-> {},
                                          status |-> "error", error |-> error]),
                 !.r_ret = [NoCall EXCEPT !.op = "remove_package", !.package = package,
                                          !.force = force, !.error = error,
                                          !.dependents = dependents,
                                          !.steps = s.steps \o <<"_rollback", "history">>]]

\* Remover.remove_package(package, force) as a function of the state: the
\* snapshot, the try block and the except block.  `stuck` are the files whose
\* removal fails, `db_raises` whether installed_db.remove_package raises.
RemovePackage(s0, rs, hs, package, force, stuck, db_raises) ==
    LET s == [s0 EXCEPT !.snapshots = SnapshotsAfterSnapshot(@, s0.installed_files),
                        !.fr_ret = NoRet("snapshot"),
                        !.steps = <<"_snapshot", "_check_dependencies">>]
        chk == _check_dependencies(rs, s.installed_db, package, force)
        dependents == find_reverse_dependencies(s.installed_db, package)
        h1 == run_hooks(hs, "pre_remove", package, s.hook_history, s.hook_trace)
        s1 == [s EXCEPT !.hook_history = h1.history, !.hook_trace = h1.trace,
                        !.steps = Append(@, "pre_remove")]
        removed == RemovedFiles(s.installed_db, package, s.sandbox_fs, stuck)
        s2 == [s1 EXCEPT !.sandbox_fs = [f \in SPaths |-> IF f \in removed THEN Absent
                                                                          ELSE s.sandbox_fs[f]],
                         !.steps = Append(@, "_remove_files")]
        h2 == run_hooks(hs, "post_remove", package, s2.hook_history, s2.hook_trace)
        s3 == [s2 EXCEPT !.hook_history = h2.history, !.hook_trace = h2.trace,
                         !.steps = Append(@, "post_remove")]
        s4 == [s3 EXCEPT !.steps = Append(@, "installed_db.remove_package")]
    IN CASE chk.raised # "none" -> RemoveFailed(s, package, force, chk.raised, dependents)
         [] h1.raised # "none"  -> RemoveFailed(s1, package, force, h1.raised, dependents)
         [] h2.raised # "none"  -> RemoveFailed(s3, package, force, h2.raised, dependents)
         [] db_raises           -> RemoveFailed(s4, package, force, "DatabaseError", dependents)
         [] OTHER ->
              [s4 EXCEPT !.installed_db = MapDel(@, package),
                         !.r_history = Append(@, [package |-> package,
                                                  removed_files |-> removed,
                                                  status |-> "success", error |-> "none"]),
                         !.r_ret = [NoCall EXCEPT !.op = "remove_package",
                                                  !.package = package, !.force = force,
                                                  !.result = TRUE,
                                                  !.dependents = dependents,
                                                  !.steps = Append(s4.steps, "history"),
                                                  !.stuck = stuck]]

\* The state `s` becomes the next state.
Becomes(s) ==
    /\ installed_files' = s.installed_files
    /\ snapshots' = s.snapshots
    /\ sandbox_fs' = s.sandbox_fs
    /\ fr_ret' = s.fr_ret
    /\ installed_db' = s.installed_db
    /\ r_history' = s.r_history
    /\ hook_history' = s.hook_history
    /\ hook_trace' = s.hook_trace
    /\ r_ret' = s.r_ret
    /\ fr_phase' = "none"
    /\ UNCHANGED <<root_exists, hooks, resolver>>

remove_package ==
    /\ Len(r_history) < MaxRemovals
    /\ \E package \in RPkgs, force \in BOOLEAN, stuck \in SUBSET SPaths, db_raises \in BOOLEAN :
          /\ stuck \subseteq get_files(installed_db, package)
          /\ Becomes(RemovePackage(RemoverState, resolver, hooks, package, force,
                                   stuck, db_raises))

\* Remover.remove_packages(packages, force): remove_package for each pkg in
\* order, results[pkg] = its return value.  db_raises[i] is whether
\* installed_db.remove_package raises in the i-th call.
\* The for loop of remove_packages: the packages still to attempt after one
\* that returned `result`.
RestAfter_stop(packages, result) == IF result THEN Tail(packages) ELSE << >>
RestAfter(packages, result) == Tail(packages)

RECURSIVE RemoveLoop(_, _, _, _, _, _, _)
RemoveLoop(s, rs, hs, packages, force, db_raises, results) ==
    IF packages = << >>
    THEN [s EXCEPT !.r_ret = [@ EXCEPT !.op = "remove_packages", !.results = results]]
    ELSE LET t == RemovePackage(s, rs, hs, Head(packages), force, {}, Head(db_raises))
         IN RemoveLoop(t, rs, hs, RestAfter(packages, t.r_ret.result), force, Tail(db_raises),
                       MapPut(results, Head(packages), t.r_ret.result))

remove_packages ==
    \E n \in 0..MaxBatch : \E packages \in [1..n -> RPkgs], db_raises \in [1..n -> BOOLEAN],
                              force \in BOOLEAN :
        /\ Len(r_history) + n <= MaxRemovals
        /\ LET s == RemoveLoop(RemoverState, resolver, hooks, packages, force,
                               db_raises, EmptyMap)
           IN Becomes([s EXCEPT !.r_ret = [@ EXCEPT !.packages = packages, !.force = force]])


\* The Remover works on a FakeRoot that files were installed into before the
\* first removal.
NextRemover ==
    \/ install_files /\ r_history = << >> /\ UNCHANGED not_fakeroot_vars
    \/ remove_package /\ UNCHANGED not_sandbox_vars
    \/ remove_packages /\ UNCHANGED not_sandbox_vars

(***************************************************************************)
(*                           BinPackageManager                             *)
(***************************************************************************)

IdleBinPkg ==
    /\ binpkg_dir = EmptyMap
    /\ bp_dest = {}
    /\ bp_audit = << >>
    /\ bp_ret = [op |-> "idle"]

\* The packages, named <name>-<version>-<arch>; version and arch are the same
\* in every call, so a package is its name.
BPkgs == {"p"}

\* The directory trees that get packed (files, relative to the directory),
\* and the ways the caller writes the directory's path.
Trees == {{"usr/bin/b"}, {"usr/bin/b", "etc/c"}}
InstallPaths == {"/build/stage", "/build/stage/"}

\* os.path.basename: what follows the last slash.
basename(path) == IF path = "/build/stage/" THEN "" ELSE "stage"

\* compress as create_binpkg takes it.
Compressions == {"gz", "xz"}

\* The most create_binpkg / install_binpkg / validate_binpkg / list_binpkgs
\* calls made on one BinPackageManager.
MaxBinOps == 3

\* The names of the files in binpkg_dir: <<package, extension>>.
TarName(package, compress) ==
    <<package, IF compress = "gz" THEN "tar.gz" ELSE "tar.xz">>
PkgInfoName(package) == <<package, "pkginfo">>

\* Path.with_suffix(".pkginfo") of a tarball's name replaces the last suffix
\* only: <name>.tar.gz becomes <name>.tar.pkginfo.
with_suffix_pkginfo(filename) == <<filename[1], "tar.pkginfo">>

\* _compute_sha256: the digest of a file's bytes; different bytes, different
\* digest.  A sidecar without sha256 gives "".
Sha256(bytes) == <<"sha256", bytes>>
NoSha256 == << >>

\* The bytes tarfile writes for tar.add(install_path, arcname=...): every file
\* of the tree under the archive name, compressed as asked.
TarBytes(arcname, tree, compress) ==
    [arcname |-> arcname, tree |-> tree, compress |-> compress, modified |-> FALSE]

\* The member paths of a tarball, as sequences of path parts: with an empty
\* arcname the files sit at the archive's root.
Members(tarball) ==
    { IF tarball.arcname = "" THEN <<f>> ELSE <<tarball.arcname, f>> : f \in tarball.tree }

\* The methods of tarfile.TarFile that this module calls and that exist.
TarFileMethods == {"add", "extractall"}

\* The hooks registered with the HookManager a BinPackageManager is given
\* (none stands for no HookManager too).
BPHookSets ==
    { << >>,
      <<Hook("pre_install", "None", 10, "none", "ok", <<"ok">>),
        Hook("post_install", "None", 10, "none", "ok", << >>)>>,
      <<Hook("pre_install", "None", 10, "none", "none", <<"fail">>)>> }

NoBinCall ==
    [op |-> "none", seq |-> 0, package |-> "-", compress |-> "-", error |-> "none",
     found |-> FALSE, valid |-> FALSE, listed |-> {}]

\* BinPackageManager.__init__ over an empty binpkg_dir, and a fresh
\* destination directory.
InitBinPkg ==
    /\ binpkg_dir = EmptyMap
    /\ bp_dest = {}
    /\ bp_audit = << >>
    /\ bp_ret = NoBinCall
    /\ hooks \in BPHookSets
    /\ hook_history = << >>
    /\ hook_trace = << >>

BinCall(op, package, compress, error) ==
    [NoBinCall EXCEPT !.op = op, !.seq = bp_ret.seq + 1, !.package = package,
                      !.compress = compress, !.error = error]

\* BinPackageManager.create_binpkg(package_name, version, install_path, arch,
\* compress): the tarball, then the sidecar, then the audit entry.
create_binpkg ==
    /\ bp_ret.seq < MaxBinOps
    /\ \E package \in BPkgs, install_path \in InstallPaths, tree \in Trees,
          compress \in Compressions :
          LET tarball == TarBytes(basename(install_path), tree, compress)
              pkginfo == [name |-> package, install_path |-> install_path,
                          sha256 |-> Sha256(tarball), compress |-> compress]
          IN /\ binpkg_dir' = MapPut(MapPut(binpkg_dir, TarName(package, compress), tarball),
                                     PkgInfoName(package), pkginfo)
             /\ bp_audit' = Append(bp_audit, [action |-> "create_binpkg",
                                              package |-> package, status |-> "success"])
             /\ bp_ret' = BinCall("create_binpkg", package, compress, "none")
    /\ UNCHANGED <<bp_dest, hooks, hook_history, hook_trace>>

\* install_binpkg: `if expected_sha and actual_sha != expected_sha`.
IntegrityFails_never(expected_sha, actual_sha) == FALSE
IntegrityFails(expected_sha, actual_sha) ==
    expected_sha # NoSha256 /\ actual_sha # expected_sha

\* BinPackageManager.install_binpkg(package_name, version, dest_path): the
\* state it leaves and the exception it raises, if any.
InstallBinpkg(dir, dest, audit, hs, history, package) ==
    LET filepath == TarName(package, "gz")
        pkginfo_file == PkgInfoName(package)
        same == [dir |-> dir, dest |-> dest, audit |-> audit, history |-> history,
                 trace |-> << >>, error |-> "none"]
    IN IF filepath \notin DOMAIN dir
       THEN [same EXCEPT !.error = "FileNotFoundError"]
       ELSE
       LET expected_sha == IF pkginfo_file \in DOMAIN dir
                           THEN dir[pkginfo_file].sha256 ELSE NoSha256
           actual_sha == Sha256(dir[filepath])
       IN IF IntegrityFails(expected_sha, actual_sha)
          THEN [same EXCEPT !.error = "ValueError"]
          ELSE
          LET pre == run_hooks(hs, "pre_install", package, history, << >>)
          IN IF pre.raised # "none"
             THEN [same EXCEPT !.history = pre.history, !.trace = pre.trace,
                               !.error = pre.raised]
             ELSE
             LET extracted == dest \cup Members(dir[filepath])
                 post == run_hooks(hs, "post_install", package, pre.history, pre.trace)
             IN IF post.raised # "none"
                THEN [same EXCEPT !.dest = extracted, !.history = post.history,
                                  !.trace = post.trace, !.error = post.raised]
                ELSE [same EXCEPT !.dest = extracted, !.history = post.history,
                                  !.trace = post.trace,
                                  !.audit = Append(audit, [action |-> "install_binpkg",
                                                           package |-> package,
                                                           status |-> "success"])]

install_binpkg ==
    /\ bp_ret.seq < MaxBinOps
    /\ \E package \in BPkgs :
          LET r == InstallBinpkg(binpkg_dir, bp_dest, bp_audit, hooks, hook_history, package)
          IN /\ bp_dest' = r.dest
             /\ bp_audit' = r.audit
             /\ hook_history' = r.history
             /\ hook_trace' = r.trace
             /\ bp_ret' = [BinCall("install_binpkg", package, "-", r.error)
                              EXCEPT !.found = r.error # "FileNotFoundError"]
    /\ UNCHANGED <<binpkg_dir, hooks>>

\* BinPackageManager.validate_binpkg(package_name, version): what it returns.
ValidateBinpkg(dir, package) ==
    LET filepath == TarName(package, "gz")
        pkginfo_file == PkgInfoName(package)
    IN IF filepath \notin DOMAIN dir \/ pkginfo_file \notin DOMAIN dir THEN FALSE
       ELSE IF "testzip" \notin TarFileMethods THEN FALSE
       ELSE Sha256(dir[filepath]) = dir[pkginfo_file].sha256

validate_binpkg ==
    /\ bp_ret.seq < MaxBinOps
    /\ \E package \in BPkgs :
          bp_ret' = [BinCall("validate_binpkg", package, "-", "none")
                        EXCEPT !.valid = ValidateBinpkg(binpkg_dir, package)]
    /\ UNCHANGED <<binpkg_dir, bp_dest, bp_audit, hooks, hook_history, hook_trace>>

\* BinPackageManager.list_binpkgs: the metadata it returns.
ListBinpkgs(dir) ==
    { dir[with_suffix_pkginfo(filepath)] :
        filepath \in { f \in DOMAIN dir :
                         f[2] = "tar.gz" /\ with_suffix_pkginfo(f) \in DOMAIN dir } }

list_binpkgs ==
    /\ bp_ret.seq < MaxBinOps
    /\ bp_ret' = [BinCall("list_binpkgs", "-", "-", "none")
                     EXCEPT !.listed = ListBinpkgs(binpkg_dir)]
    /\ UNCHANGED <<binpkg_dir, bp_dest, bp_audit, hooks, hook_history, hook_trace>>

\* The bytes install_binpkg and validate_binpkg digest are those on disk:
\* a tarball may have been changed since create_binpkg wrote it.
modify_tarball ==
    /\ \E f \in DOMAIN binpkg_dir :
          /\ f[2] = "tar.gz"
          /\ ~binpkg_dir[f].modified
          /\ binpkg_dir' = [binpkg_dir EXCEPT ![f].modified = TRUE]
    /\ UNCHANGED <<bp_dest, bp_audit, bp_ret, hooks, hook_history, hook_trace>>

NextBinPkg ==
    \/ create_binpkg /\ UNCHANGED not_binpkg_vars
    \/ install_binpkg /\ UNCHANGED not_binpkg_vars
    \/ validate_binpkg /\ UNCHANGED not_binpkg_vars
    \/ list_binpkgs /\ UNCHANGED not_binpkg_vars
    \/ modify_tarball /\ UNCHANGED not_binpkg_vars


(***************************************************************************)
(*                                History                                  *)
(***************************************************************************)

IdleHistory ==
    /\ journal = << >>
    /\ h_audit = << >>
    /\ h_pc = "idle"
    /\ h_ret = [op |-> "idle"]
    /\ h_read = [op |-> "idle"]

\* What the journal file holds is the text json.dump has written so far, as
\* the pieces it is written in: the opening bracket, one piece per entry,
\* the closing bracket; or the start of an entry whose details json.dump
\* could not encode.
NoEntry == [id |-> 0, action |-> "-", package |-> "-", details |-> "-", status |-> "-"]
Piece(t, e) == [t |-> t, e |-> e]

\* json.dump(history, f, indent=4): the pieces written for a list of entries,
\* up to the first entry it raises TypeError on.
Serialisable(history) == \A i \in 1..Len(history) : history[i].details # "unserialisable"
json_dump(history) ==
    IF Serialisable(history)
    THEN <<Piece("[", NoEntry)>> \o [i \in 1..Len(history) |-> Piece("entry", history[i])]
            \o <<Piece("]", NoEntry)>>
    ELSE LET k == CHOOSE i \in 1..Len(history) :
                    /\ history[i].details = "unserialisable"
                    /\ \A j \in 1..(i - 1) : history[j].details # "unserialisable"
         IN <<Piece("[", NoEntry)>> \o [i \in 1..(k - 1) |-> Piece("entry", history[i])]
               \o <<Piece("partial", NoEntry)>>

\* json.load(f): the list a complete array parses to; anything else raises
\* JSONDecodeError.
json_load(text) ==
    IF /\ Len(text) >= 2
       /\ text[1].t = "[" /\ text[Len(text)].t = "]"
       /\ \A i \in 2..(Len(text) - 1) : text[i].t = "entry"
    THEN [ok |-> TRUE, value |-> [i \in 1..(Len(text) - 2) |-> text[i + 1].e]]
    ELSE [ok |-> FALSE, value |-> << >>]

\* The most entries recorded in one journal.
MaxRecords == 3

\* What callers record: an action on a package, with details json can
\* encode or not, and a status.
HActions == {"install"}
HPkgs == {"p"}
HDetails == {"json", "unserialisable"}

NoHistoryCall ==
    [op |-> "none", error |-> "none", before |-> << >>, history |-> << >>,
     entry |-> NoEntry]
NoRead == [op |-> "none", ok |-> TRUE, value |-> << >>]

\* History.__init__: the journal file is created as "[]".
InitHistory ==
    /\ journal = json_dump(<< >>)
    /\ h_audit = << >>
    /\ h_pc = "idle"
    /\ h_ret = NoHistoryCall
    /\ h_read = NoRead

\* record: action_id = len(history) + 1.
ActionId_first(history) == 1
ActionId(history) == Len(history) + 1

\* record, up to the open("w") of _save_history: the journal is loaded, the
\* entry appended to the list in memory, and the file truncated.
RecordBegin(op, action, package, details, status) ==
    LET loaded == json_load(journal)
    IN IF ~loaded.ok
       THEN /\ h_ret' = [NoHistoryCall EXCEPT !.op = op, !.error = "JSONDecodeError"]
            /\ UNCHANGED <<journal, h_audit, h_pc, h_read>>
       ELSE LET entry == [id |-> ActionId(loaded.value), action |-> action,
                          package |-> package, details |-> details, status |-> status]
            IN /\ h_ret' = [op |-> op, error |-> "none", before |-> loaded.value,
                            history |-> Append(loaded.value, entry), entry |-> entry]
               /\ journal' = << >>
               /\ h_pc' = "writing"
               /\ UNCHANGED <<h_audit, h_read>>

\* History.record(action, package, details, status) is called.
record ==
    /\ h_pc = "idle"
    /\ Len(journal) < MaxRecords + 2
    /\ \E action \in HActions, package \in HPkgs, details \in HDetails :
          RecordBegin("record", action, package, details, "success")

\* History.rollback(action_id) is called (no cache manager, no fake root):
\* an unknown id raises ValueError; otherwise a rollback entry is recorded.
rollback_history ==
    /\ h_pc = "idle"
    /\ Len(journal) < MaxRecords + 2
    /\ \E action_id \in 1..(MaxRecords + 1) :
          LET loaded == json_load(journal)
          IN IF ~loaded.ok
             THEN /\ h_ret' = [NoHistoryCall EXCEPT !.op = "rollback",
                                                    !.error = "JSONDecodeError"]
                  /\ UNCHANGED <<journal, h_audit, h_pc, h_read>>
             ELSE IF \A i \in 1..Len(loaded.value) : loaded.value[i].id # action_id
             THEN /\ h_ret' = [NoHistoryCall EXCEPT !.op = "rollback", !.error = "ValueError",
                                                    !.before = loaded.value]
                  /\ UNCHANGED <<journal, h_audit, h_pc, h_read>>
             ELSE LET action == loaded.value[CHOOSE i \in 1..Len(loaded.value) :
                                                loaded.value[i].id = action_id]
                  IN RecordBegin("rollback", "rollback", action.package, "json",
                                 "rolled_back")

\* json.dump writes the next piece of the list to the open file; on a value
\* it cannot encode it raises TypeError and the file is closed as it is.
write_piece ==
    /\ h_pc = "writing"
    /\ Len(journal) < Len(json_dump(h_ret.history))
    /\ LET piece == json_dump(h_ret.history)[Len(journal) + 1]
       IN /\ journal' = Append(journal, piece)
          /\ IF piece.t = "partial"
             THEN /\ h_pc' = "idle"
                  /\ h_ret' = [h_ret EXCEPT !.error = "TypeError"]
             ELSE UNCHANGED <<h_pc, h_ret>>
    /\ UNCHANGED <<h_audit, h_read>>

\* The file is closed, the entry appended to audit_history, record returns.
record_return ==
    /\ h_pc = "writing"
    /\ journal = json_dump(h_ret.history)
    /\ h_pc' = "idle"
    /\ h_audit' = Append(h_audit, h_ret.entry)
    /\ UNCHANGED <<journal, h_ret, h_read>>

\* A reader of the journal file (list_history of another History on the same
\* file, export_history, ...) loads it, whatever the writer is doing.
list_history ==
    /\ LET loaded == json_load(journal)
       IN h_read' = [op |-> "read", ok |-> loaded.ok, value |-> loaded.value]
    /\ h_read' # h_read
    /\ UNCHANGED <<journal, h_audit, h_pc, h_ret>>

NextHistory ==
    \/ record /\ UNCHANGED not_history_vars
    \/ rollback_history /\ UNCHANGED not_history_vars
    \/ write_piece /\ UNCHANGED not_history_vars
    \/ record_return /\ UNCHANGED not_history_vars
    \/ list_history /\ UNCHANGED not_history_vars


(***************************************************************************)
(*                              CacheManager                               *)
(***************************************************************************)

\* The configured cache roots, in order, and the file names in them.
\* store_file(file, compress=True) stores x as x.gz.
CacheRoots == 1..2
CNames == {"x", "x.gz"}

\* The most store_file / get_file / clean_cache calls made on one
\* CacheManager.
MaxCacheOps == 2

\* A file in a cache root: older than max_age or not, open() for reading
\* fails or not, larger than max_size or not, unlink() fails or not (a
\* read-only root).
CacheFile(expired, readable, oversize, locked) ==
    [expired |-> expired, readable |-> readable, oversize |-> oversize, locked |-> locked]
CacheFiles ==
    { CacheFile(FALSE, TRUE, FALSE, FALSE), CacheFile(TRUE, TRUE, FALSE, FALSE),
      CacheFile(FALSE, FALSE, FALSE, FALSE), CacheFile(FALSE, TRUE, TRUE, FALSE),
      CacheFile(TRUE, TRUE, FALSE, TRUE) }

\* What the cache roots hold when a CacheManager is constructed over them.
CacheContents == [CacheRoots -> UNION { [S -> CacheFiles] : S \in SUBSET {"x"} }]

\* CacheManager._is_valid: the age test, then the read test.
_is_valid(file) ==
    IF file.expired THEN FALSE
    ELSE IF ~file.readable THEN FALSE
    ELSE TRUE

NoCacheCall ==
    [op |-> "none", seq |-> 0, name |-> "-", force |-> FALSE, result |-> 0,
     raised |-> FALSE, before |-> << >>]
CacheCall(op, name) == [NoCacheCall EXCEPT !.op = op, !.seq = c_ret.seq + 1, !.name = name]

IdleCache ==
    /\ cache_fs = << >>
    /\ c_audit = << >>
    /\ c_ret = [op |-> "idle"]

\* CacheManager.__init__ over the cache roots as they are on disk.
InitCache ==
    /\ cache_fs \in CacheContents
    /\ c_audit = << >>
    /\ c_ret = NoCacheCall

\* get_file: the roots are tried in configured order.
RootOrder_reversed == <<2, 1>>
RootOrder == <<1, 2>>

\* CacheManager.get_file(filename): the root whose file is returned, 0 for None.
RECURSIVE GetFile(_, _, _)
GetFile(fs, filename, roots) ==
    IF roots = << >> THEN 0
    ELSE LET d == Head(roots)
         IN IF filename \in DOMAIN fs[d] /\ _is_valid(fs[d][filename])
            THEN d
            ELSE GetFile(fs, filename, Tail(roots))

get_file ==
    /\ c_ret.seq < MaxCacheOps
    /\ \E filename \in CNames :
          c_ret' = [CacheCall("get_file", filename)
                       EXCEPT !.result = GetFile(cache_fs, filename, RootOrder)]
    /\ UNCHANGED <<cache_fs, c_audit>>

\* CacheManager.store_file(file_path, compress): the file is copied (or
\* packed as <name>.gz) into the first root; writing over a file that cannot
\* be opened raises.
store_file ==
    /\ c_ret.seq < MaxCacheOps
    /\ \E compress \in BOOLEAN, oversize \in BOOLEAN :
          LET dest_file == IF compress THEN "x.gz" ELSE "x"
          IN IF dest_file \in DOMAIN cache_fs[1] /\ ~cache_fs[1][dest_file].readable
             THEN /\ c_ret' = [CacheCall("store_file", dest_file) EXCEPT !.raised = TRUE]
                  /\ UNCHANGED <<cache_fs, c_audit>>
             ELSE /\ cache_fs' = [cache_fs EXCEPT ![1] =
                                    MapPut(@, dest_file,
                                           CacheFile(FALSE, TRUE, oversize,
                                                     IF dest_file \in DOMAIN @
                                                     THEN @[dest_file].locked ELSE FALSE))]
                  /\ c_audit' = Append(c_audit, [action |-> "store_file", root |-> 1,
                                                 file |-> dest_file])
                  /\ c_ret' = [CacheCall("store_file", dest_file) EXCEPT !.result = 1]

\* clean_cache: the files of one root that are unlinked: those that are
\* invalid (all of them when forced), unless unlink raises.
Unlinked(files, force) ==
    { f \in DOMAIN files : (force \/ ~_is_valid(files[f])) /\ ~files[f].locked }

\* CacheManager.clean_cache(force).
clean_cache ==
    /\ c_ret.seq < MaxCacheOps
    /\ \E force \in BOOLEAN :
          /\ cache_fs' = [d \in CacheRoots |->
                            [f \in DOMAIN cache_fs[d] \ Unlinked(cache_fs[d], force)
                               |-> cache_fs[d][f]]]
          /\ c_audit' = c_audit \o
                [i \in 1..Cardinality(Unlinked(cache_fs[1], force))
                       |-> [action |-> "clean_cache", root |-> 1, file |-> "-"]] \o
                [i \in 1..Cardinality(Unlinked(cache_fs[2], force))
                       |-> [action |-> "clean_cache", root |-> 2, file |-> "-"]]
          /\ c_ret' = [CacheCall("clean_cache", "-") EXCEPT !.force = force,
                                                            !.before = cache_fs]

\* Time passes: a file becomes older than max_age.
expire ==
    /\ \E d \in CacheRoots : \E f \in DOMAIN cache_fs[d] :
          /\ ~cache_fs[d][f].expired
          /\ cache_fs' = [cache_fs EXCEPT ![d][f].expired = TRUE]
    /\ UNCHANGED <<c_audit, c_ret>>

NextCache ==
    \/ get_file /\ UNCHANGED not_cache_vars
    \/ store_file /\ UNCHANGED not_cache_vars
    \/ clean_cache /\ UNCHANGED not_cache_vars
    \/ expire /\ UNCHANGED not_cache_vars

(***************************************************************************)
(*                          DependencyResolver                             *)
(***************************************************************************)

\* A dependency dict {dep: flag} of a recipe, in insertion order: empty, or
\* one dependency with its gate flag ("" is no gate).
DepTypes == <<"build_deps", "runtime_deps", "optional_deps">>
GatedDeps(targets) == {<< >>} \cup { <<<<d, f>>>> : d \in targets, f \in Flags }

\* The recipe handed to resolve / find_missing: package "a".
RootRecipes ==
    [name : {"a"}, build_deps : GatedDeps({"b", "c"}), runtime_deps : GatedDeps({"b", "c"}),
     optional_deps : GatedDeps({"b", "c"})]

\* What installed_db.get_recipe answers for a dependency: None, or its recipe.
NoRecipe == [name |-> "None", build_deps |-> << >>, runtime_deps |-> << >>,
             optional_deps |-> << >>]
DepRecipe(name, runtime_deps) ==
    [name |-> name, build_deps |-> << >>, runtime_deps |-> runtime_deps,
     optional_deps |-> << >>]
RecipeDbs ==
    [b : {NoRecipe} \cup { DepRecipe("b", q) : q \in GatedDeps({"a", "c"}) \ {<<<<"a", "ssl">>>>} },
     c : {NoRecipe} \cup { DepRecipe("c", q) : q \in {<< >>, <<<<"b", "">>>>} }]

\* installed_db.get_recipe(dep_name).
get_recipe(db, dep_name) ==
    IF dep_name \in DOMAIN db THEN db[dep_name] ELSE NoRecipe

\* The use_flags argument: None (not given), or a list of flags.
UseFlagArgs ==
    {[given |-> FALSE, flags |-> {}], [given |-> TRUE, flags |-> {}],
     [given |-> TRUE, flags |-> {"ssl"}]}

\* parse_dependencies: `not flag or (use_flags and flag in use_flags)`.
GateOpen_always(flag, use_flags) == TRUE
GateOpen(flag, use_flags) ==
    flag = "" \/ (use_flags.given /\ use_flags.flags # {} /\ flag \in use_flags.flags)

\* parse_dependencies: the loop over the items of one dependency dict.
RECURSIVE ParseItems(_, _, _)
ParseItems(deps, items, use_flags) ==
    IF items = << >> THEN deps
    ELSE ParseItems(IF GateOpen(Head(items)[2], use_flags)
                    THEN AdjSet(deps, Head(items)[1], 1) ELSE deps,
                    Tail(items), use_flags)

\* parse_dependencies(recipe, use_flags): the dict {dep: 1}, in insertion order.
ParseDependencies(r, use_flags) ==
    ParseItems(ParseItems(ParseItems(<< >>, r.build_deps, use_flags),
                          r.runtime_deps, use_flags),
               r.optional_deps, use_flags)

\* graph.add_package(r["name"], deps) with deps a dict, possibly empty.
DictArg(deps) ==
    IF deps = << >> THEN [kind |-> "none", items |-> << >>]
    ELSE [kind |-> "dict", items |-> deps]

\* build_graph: visit(r) and its loop over deps.keys(), threading the graph
\* and the visited set.
RECURSIVE visit(_, _, _, _)
RECURSIVE visit_deps(_, _, _, _)
visit(db, r, use_flags, st) ==
    IF r.name \in st.visited THEN st
    ELSE LET deps == ParseDependencies(r, use_flags)
         IN visit_deps(db, AdjSeq(deps), use_flags,
                       [graph |-> GraphAfterAdd(st.graph, r.name, DictArg(deps), 1),
                        nodes |-> NodesAfterAdd(st.nodes, r.name, DictArg(deps)),
                        visited |-> st.visited \cup {r.name}])

visit_deps(db, names, use_flags, st) ==
    IF names = << >> THEN st
    ELSE LET dep_recipe == get_recipe(db, Head(names))
         IN visit_deps(db, Tail(names), use_flags,
                       IF dep_recipe # NoRecipe THEN visit(db, dep_recipe, use_flags, st)
                       ELSE st)

\* build_graph(recipe, use_flags): the graph that visit(recipe) leaves.
build_graph(db, r, use_flags) ==
    visit(db, r, use_flags, [graph |-> EmptyMap, nodes |-> {}, visited |-> {}])

\* resolve(recipe, use_flags): build_graph, its detect_cycles test, then
\* topo_sort; self.nodes is iterated in `iter`.
resolve(db, r, use_flags, iter) ==
    LET g == build_graph(db, r, use_flags)
    IN IF detect_cycles(g.graph, iter)
       THEN [raised |-> TRUE, order |-> << >>]
       ELSE topo_sort(g.graph, g.nodes, iter)

\* installed_db.is_installed(pkg).
is_installed_never(installed, pkg) == FALSE
is_installed(installed, pkg) == pkg \in installed

\* find_missing: the resolved list without the installed packages.
find_missing(db, installed, r, use_flags, iter) ==
    LET resolved == resolve(db, r, use_flags, iter)
    IN [raised |-> resolved.raised, resolved |-> resolved.order,
        order |-> SelectSeq(resolved.order, LAMBDA pkg : ~is_installed(installed, pkg))]

NoResolverCall ==
    [op |-> "none", use_flags |-> [given |-> FALSE, flags |-> {}], raised |-> FALSE,
     order |-> << >>, resolved |-> << >>]

IdleResolver ==
    /\ rs_recipe = NoRecipe
    /\ rs_db = << >>
    /\ rs_installed = {}
    /\ rs_ret = [op |-> "idle"]

\* A DependencyResolver over an installed database, and the recipe it is
\* asked about.
InitResolver ==
    /\ rs_recipe \in RootRecipes
    /\ rs_db \in RecipeDbs
    /\ rs_installed \in SUBSET Pkgs
    /\ rs_ret = NoResolverCall

\* The calls are pure: a run makes one call on the resolver it constructed.
call_resolve ==
    /\ rs_ret = NoResolverCall
    /\ \E use_flags \in UseFlagArgs :
       \E iter \in Orders(build_graph(rs_db, rs_recipe, use_flags).nodes) :
          LET r == resolve(rs_db, rs_recipe, use_flags, iter)
          IN rs_ret' = [op |-> "resolve", use_flags |-> use_flags, raised |-> r.raised,
                        order |-> r.order, resolved |-> r.order]
    /\ UNCHANGED <<rs_recipe, rs_db, rs_installed>>

call_find_missing ==
    /\ rs_ret = NoResolverCall
    /\ \E use_flags \in UseFlagArgs :
       \E iter \in Orders(build_graph(rs_db, rs_recipe, use_flags).nodes) :
          LET r == find_missing(rs_db, rs_installed, rs_recipe, use_flags, iter)
          IN rs_ret' = [op |-> "find_missing", use_flags |-> use_flags, raised |-> r.raised,
                        order |-> r.order, resolved |-> r.resolved]
    /\ UNCHANGED <<rs_recipe, rs_db, rs_installed>>

NextResolver ==
    \/ call_resolve /\ UNCHANGED not_resolver_vars
    \/ call_find_missing /\ UNCHANGED not_resolver_vars

(***************************************************************************)
(*                  History: rollback and list_history                     *)
(***************************************************************************)

\* The journal as the list _load_history returns.  An entry's details hold
\* the files the action touched, or the id a rollback entry refers to (0 for
\* a key that is not there).
Details(files, rolled_back_id) == [files |-> files, rolled_back_id |-> rolled_back_id]
Entry(id, action, package, details, status) ==
    [id |-> id, action |-> action, package |-> package, details |-> details,
     status |-> status]

\* Absolute paths, as the tuple of their parts: Path(f).anchor is the first
\* part, Path(f).name the last.
FilePaths == {<<"/", "usr", "x">>, <<"/", "usr", "y">>}
FileLists == {<< >>, <<<<"/", "usr", "x">>>>, <<<<"/", "usr", "x">>, <<"/", "usr", "y">>>>}
path_name(fpath) == Last(fpath)
relative_to_anchor(fpath) == Tail(fpath)

\* The entries of the journal file a History is constructed over, the most
\* entries a journal grows to, and the largest `limit` asked for.
MaxSeed == 1
MaxJournal == 3
MaxLimit == 2

LPkgs == {"p", "q"}
SeedEntries(id) ==
    { Entry(id, "install", package, Details(files, 0), "success") :
        package \in LPkgs, files \in FileLists }
RECURSIVE Journals(_)
Journals(n) ==
    IF n = 0 THEN {<< >>}
    ELSE LET shorter == Journals(n - 1)
         IN shorter \cup { Append(j, e) : j \in { x \in shorter : Len(x) = n - 1 },
                                          e \in SeedEntries(n) }

\* The objects History.__init__ is given: a cache manager or None, a fake
\* root or None.  The cache manager's roots hold a copy of x (valid or
\* expired) or nothing; the sandbox holds counterparts of the files or not.
HistoryCaches ==
    { fs \in CacheContents :
        /\ DOMAIN fs[2] = {}
        /\ \A f \in DOMAIN fs[1] : fs[1][f].readable /\ ~fs[1][f].oversize /\ ~fs[1][f].locked }
HistoryConfigs == [cache_manager : BOOLEAN, fake_root : BOOLEAN]

NoLedgerCall ==
    [op |-> "none", action_id |-> 0, limit |-> 0, package |-> "None",
     action_type |-> "None", status |-> "None", raised |-> "none",
     journal |-> << >>, sandbox |-> {}, result |-> << >>]

IdleLedger ==
    /\ hx_cfg = << >>
    /\ hx_cache = << >>
    /\ hx_journal = << >>
    /\ hx_real = << >>
    /\ hx_sandbox = {}
    /\ hx_ret = [op |-> "idle"]

InitLedger ==
    /\ hx_cfg \in HistoryConfigs
    /\ hx_cache \in HistoryCaches
    /\ ~hx_cfg.cache_manager => DOMAIN hx_cache[1] = {}
    /\ hx_journal \in Journals(MaxSeed)
    /\ hx_real = [f \in FilePaths |-> "installed"]
    /\ hx_sandbox \in SUBSET { relative_to_anchor(f) : f \in FilePaths }
    /\ ~hx_cfg.fake_root => hx_sandbox = {}
    /\ hx_ret = NoLedgerCall

\* The loop of rollback over the files of the action: a cached copy is
\* copied over the file; without a cache manager, the file's counterpart
\* under fake_root.dest_path is unlinked if it exists.
RECURSIVE RollbackFiles(_, _, _, _)
RollbackFiles(cfg, cache, files, st) ==
    IF files = << >> THEN st
    ELSE LET fpath == Head(files)
             cached == IF cfg.cache_manager
                       THEN GetFile(cache, path_name(fpath), RootOrder) ELSE 0
             after ==
               IF cfg.cache_manager
               THEN IF cached # 0
                    THEN [st EXCEPT !.real[fpath] = "restored"]
                    ELSE st
               ELSE IF cfg.fake_root
                    THEN [st EXCEPT !.sandbox = @ \ {relative_to_anchor(fpath)}]
                    ELSE st
         IN RollbackFiles(cfg, cache, Tail(files), after)

\* History.rollback(action_id): ValueError for an id the journal does not
\* hold; otherwise the files are handled and record("rollback", ...) appends
\* the rolled_back entry.
call_rollback ==
    /\ Len(hx_journal) < MaxJournal
    /\ \E action_id \in 1..MaxJournal :
          LET found == { i \in 1..Len(hx_journal) : hx_journal[i].id = action_id }
              call == [NoLedgerCall EXCEPT !.op = "rollback", !.action_id = action_id,
                                           !.journal = hx_journal, !.sandbox = hx_sandbox]
          IN IF found = {}
             THEN /\ hx_ret' = [call EXCEPT !.raised = "ValueError"]
                  /\ UNCHANGED <<hx_journal, hx_real, hx_sandbox>>
             ELSE LET action == hx_journal[CHOOSE i \in found : \A j \in found : i <= j]
                      st == RollbackFiles(hx_cfg, hx_cache, action.details.files,
                                          [real |-> hx_real, sandbox |-> hx_sandbox])
                  IN /\ hx_real' = st.real
                     /\ hx_sandbox' = st.sandbox
                     /\ hx_journal' =
                          Append(hx_journal,
                                 Entry(ActionId(hx_journal), "rollback", action.package,
                                       Details(<< >>, action_id), "rolled_back"))
                     /\ hx_ret' = call
    /\ UNCHANGED <<hx_cfg, hx_cache>>

\* filtered[-limit:]: a slice from len - limit when -limit is negative
\* (clamped at 0), from -limit = 0 otherwise.
TailSlice(filtered, limit) ==
    LET start == IF 0 - limit < 0
                 THEN (IF Len(filtered) - limit < 0 THEN 0 ELSE Len(filtered) - limit)
                 ELSE 0
    IN SubSeq(filtered, start + 1, Len(filtered))

\* list_history(limit, package, action_type, status): each filter that is
\* given (truthy) is applied, then the slice.
ListHistory(history, limit, package, action_type, status) ==
    LET f1 == IF package # "None"
              THEN SelectSeq(history, LAMBDA h : h.package = package) ELSE history
        f2 == IF action_type # "None"
              THEN SelectSeq(f1, LAMBDA h : h.action = action_type) ELSE f1
        f3 == IF status # "None"
              THEN SelectSeq(f2, LAMBDA h : h.status = status) ELSE f2
    IN TailSlice(f3, limit)

call_list_history ==
    /\ \E limit \in 0..MaxLimit, package \in {"None"} \cup LPkgs,
          action_type \in {"None", "install", "rollback"},
          status \in {"None", "success", "rolled_back"} :
          hx_ret' = [NoLedgerCall EXCEPT
                       !.op = "list_history", !.limit = limit, !.package = package,
                       !.action_type = action_type, !.status = status,
                       !.journal = hx_journal,
                       !.result = ListHistory(hx_journal, limit, package, action_type, status)]
    /\ UNCHANGED <<hx_cfg, hx_cache, hx_journal, hx_real, hx_sandbox>>

NextLedger ==
    \/ call_rollback /\ UNCHANGED not_ledger_vars
    \/ call_list_history /\ UNCHANGED not_ledger_vars

(***************************************************************************)
(*                               UseFlags                                  *)
(***************************************************************************)

\* The flags and packages of a run, and the flags_dict arguments of
\* set_package_flags: every dict from some of the flags to a boolean.
FlagNames == {"x", "y"}
FPkgs == {"p", "q"}
FlagDicts == UNION { [S -> BOOLEAN] : S \in SUBSET FlagNames }

\* The most enable_global / disable_global / set_package_flags calls made on
\* one UseFlags.
MaxFlagOps == 3

\* What save() writes to config_path.
Config(global_flags, package_flags, history) ==
    [global_flags |-> global_flags, package_flags |-> package_flags, history |-> history]
NoConfig == [global_flags |-> EmptyMap, package_flags |-> EmptyMap, history |-> <<"absent">>]

NoFlagCall == [op |-> "none", package |-> "-", flag |-> "-", result |-> FALSE]

IdleFlags ==
    /\ uf_global = << >>
    /\ uf_package = << >>
    /\ uf_history = << >>
    /\ uf_config = << >>
    /\ uf_calls = << >>
    /\ uf_ret = [op |-> "idle"]

\* UseFlags.__init__ with no file at config_path: load() leaves everything empty.
InitFlags ==
    /\ uf_global = EmptyMap
    /\ uf_package = EmptyMap
    /\ uf_history = << >>
    /\ uf_config = NoConfig
    /\ uf_calls = << >>
    /\ uf_ret = NoFlagCall

\* _log_action(action, flag, user, package).
LogEntry(action, flag, package) == [action |-> action, flag |-> flag, package |-> package]

\* enable_global / disable_global: self.global_flags[flag] = value, the
\* history entry, save().
SetGlobal(op, flag, value) ==
    /\ Len(uf_calls) < MaxFlagOps
    /\ uf_global' = MapPut(uf_global, flag, value)
    /\ uf_history' = Append(uf_history, LogEntry(op, flag, "None"))
    /\ uf_config' = Config(uf_global', uf_package, uf_history')
    /\ uf_calls' = Append(uf_calls, [op |-> op, package |-> "None", flag |-> flag,
                                     flags_dict |-> EmptyMap])
    /\ uf_ret' = [NoFlagCall EXCEPT !.op = op, !.flag = flag]
    /\ UNCHANGED uf_package

enable_global == \E flag \in FlagNames : SetGlobal("enable_global", flag, TRUE)
disable_global == \E flag \in FlagNames : SetGlobal("disable_global", flag, FALSE)

\* The history entries of set_package_flags, one per item of flags_dict in
\* the order `keys` of the dict.
PackageLog(package, flags_dict, keys) ==
    [i \in 1..Len(keys) |->
        LogEntry(IF flags_dict[keys[i]] THEN "enable_package" ELSE "disable_package",
                 keys[i], package)]

\* set_package_flags(package, flags_dict): the package's dict is replaced.
set_package_flags ==
    /\ Len(uf_calls) < MaxFlagOps
    /\ \E package \in {"p"}, flags_dict \in FlagDicts :
       \E keys \in Orders(DOMAIN flags_dict) :
          /\ uf_package' = MapPut(uf_package, package, flags_dict)
          /\ uf_history' = uf_history \o PackageLog(package, flags_dict, keys)
          /\ uf_config' = Config(uf_global, uf_package', uf_history')
          /\ uf_calls' = Append(uf_calls, [op |-> "set_package_flags", package |-> package,
                                           flag |-> "-", flags_dict |-> flags_dict])
          /\ uf_ret' = [NoFlagCall EXCEPT !.op = "set_package_flags", !.package = package]
    /\ UNCHANGED uf_global

\* is_flag_enabled(flag): self.global_flags.get(flag, False).
is_flag_enabled(global_flags, flag) ==
    IF flag \in DOMAIN global_flags THEN global_flags[flag] ELSE FALSE

\* is_package_flag_enabled(package, flag):
\* self.package_flags.get(package, {}).get(flag, self.is_flag_enabled(flag)).
is_package_flag_enabled_global_first(package_flags, global_flags, package, flag) ==
    IF flag \in DOMAIN global_flags THEN global_flags[flag]
    ELSE IF package \in DOMAIN package_flags /\ flag \in DOMAIN package_flags[package]
         THEN package_flags[package][flag] ELSE FALSE
is_package_flag_enabled(package_flags, global_flags, package, flag) ==
    LET pkg_flags == IF package \in DOMAIN package_flags THEN package_flags[package]
                     ELSE EmptyMap
    IN IF flag \in DOMAIN pkg_flags THEN pkg_flags[flag]
       ELSE is_flag_enabled(global_flags, flag)

call_is_package_flag_enabled ==
    /\ \E package \in FPkgs, flag \in FlagNames :
          uf_ret' = [op |-> "is_package_flag_enabled", package |-> package, flag |-> flag,
                     result |-> is_package_flag_enabled(uf_package, uf_global, package, flag)]
    /\ UNCHANGED <<uf_global, uf_package, uf_history, uf_config, uf_calls>>

NextFlags ==
    \/ enable_global /\ UNCHANGED not_flags_vars
    \/ disable_global /\ UNCHANGED not_flags_vars
    \/ set_package_flags /\ UNCHANGED not_flags_vars
    \/ call_is_package_flag_enabled /\ UNCHANGED not_flags_vars

(***************************************************************************)
(*                 History.record by two processes                         *)
(***************************************************************************)

\* Two History objects on the same history_file, each in a process of its
\* own, and the most record calls each of them makes.
Writers == {"w1", "w2"}
MaxWrites == 2
OtherWriter(w) == IF w = "w1" THEN "w2" ELSE "w1"

IdleWriters ==
    /\ w_file = << >>
    /\ w_pc = << >>
    /\ w_mem = << >>
    /\ w_audit = << >>
    /\ w_calls = << >>
    /\ w_err = << >>
    /\ w_overlap = FALSE

\* History.__init__ by both: the journal file is created as "[]" by the
\* first and found by the second.
InitWriters ==
    /\ w_file = json_dump(<< >>)
    /\ w_pc = [w \in Writers |-> "idle"]
    /\ w_mem = [w \in Writers |-> << >>]
    /\ w_audit = [w \in Writers |-> << >>]
    /\ w_calls = [w \in Writers |-> 0]
    /\ w_err = [w \in Writers |-> "none"]
    /\ w_overlap = FALSE

\* What a file holds after `text` is written from offset 0 through a handle
\* that was opened before the file got its present content: the text, then
\* what the present content has beyond the length of the text.
Overlay(text, present) ==
    IF Len(present) > Len(text) THEN text \o SubSeq(present, Len(text) + 1, Len(present))
                                ELSE text

\* record, first statements: history = self._load_history(), action_id =
\* len(history) + 1, history.append(entry).  json.load raises on a file that
\* does not hold one complete array, and record with it.
w_load(w) ==
    /\ w_pc[w] = "idle"
    /\ w_calls[w] < MaxWrites
    /\ w_calls' = [w_calls EXCEPT ![w] = @ + 1]
    /\ w_overlap' = (w_overlap \/ w_pc[OtherWriter(w)] # "idle")
    /\ LET loaded == json_load(w_file)
       IN IF ~loaded.ok
          THEN /\ w_err' = [w_err EXCEPT ![w] = "JSONDecodeError"]
               /\ UNCHANGED <<w_file, w_pc, w_mem, w_audit>>
          ELSE LET entry == [id |-> ActionId(loaded.value), action |-> "install",
                             package |-> w, details |-> "json", status |-> "success"]
               IN /\ w_mem' = [w_mem EXCEPT ![w] = Append(loaded.value, entry)]
                  /\ w_pc' = [w_pc EXCEPT ![w] = "loaded"]
                  /\ UNCHANGED <<w_file, w_audit, w_err>>

\* _save_history: self.history_file.open("w") truncates the file.
w_open(w) ==
    /\ w_pc[w] = "loaded"
    /\ w_file' = << >>
    /\ w_pc' = [w_pc EXCEPT ![w] = "opened"]
    /\ UNCHANGED <<w_mem, w_audit, w_calls, w_err, w_overlap>>

\* _save_history: json.dump's text reaches the file when the handle is
\* closed; then self.audit_history.append(entry) and record returns.
w_dump(w) ==
    /\ w_pc[w] = "opened"
    /\ w_file' = Overlay(json_dump(w_mem[w]), w_file)
    /\ w_audit' = [w_audit EXCEPT ![w] = Append(@, w_mem[w][Len(w_mem[w])])]
    /\ w_pc' = [w_pc EXCEPT ![w] = "idle"]
    /\ UNCHANGED <<w_mem, w_calls, w_err, w_overlap>>

NextWriters ==
    \/ (\E w \in Writers : w_load(w)) /\ UNCHANGED not_writers_vars
    \/ (\E w \in Writers : w_open(w)) /\ UNCHANGED not_writers_vars
    \/ (\E w \in Writers : w_dump(w)) /\ UNCHANGED not_writers_vars


(***************************************************************************)
(*                                Sandbox                                  *)
(***************************************************************************)

\* The files a build can leave in the sandbox directory of the package, and
\* the most Sandbox calls of a run.
SFiles == {"obj", "out"}
MaxSandboxOps == 4

NoSnapshot == [exists |-> FALSE, files |-> {}]
NoSandboxCall ==
    [op |-> "none", seq |-> 0, raised |-> "none", out |-> {}, trace |-> << >>,
     rolled_back |-> FALSE]

IdleSandbox ==
    /\ sb_created = FALSE
    /\ sb_dir = {}
    /\ sb_snapshot = NoSnapshot
    /\ sb_history = << >>
    /\ sb_ret = [op |-> "idle"]

\* Sandbox.__init__ with a History, one pre_build and one post_build hook:
\* no sandbox, no snapshot.
InitSandbox ==
    /\ sb_created = FALSE
    /\ sb_dir = {}
    /\ sb_snapshot = NoSnapshot
    /\ sb_history = << >>
    /\ sb_ret = NoSandboxCall

SandboxRet(op) == [NoSandboxCall EXCEPT !.op = op, !.seq = sb_ret.seq + 1]

\* create(package_name): a new, empty directory becomes the package's
\* sandbox, and sandbox_create is recorded.
Sandbox_create ==
    /\ sb_ret.seq < MaxSandboxOps
    /\ sb_created' = TRUE
    /\ sb_dir' = {}
    /\ sb_history' = Append(sb_history, "sandbox_create")
    /\ sb_ret' = SandboxRet("create")
    /\ UNCHANGED sb_snapshot

\* snapshot(package_name): None without a sandbox; otherwise the snapshot
\* directory is replaced by a copy of the sandbox.
Sandbox_snapshot ==
    /\ sb_ret.seq < MaxSandboxOps
    /\ sb_snapshot' = IF sb_created THEN [exists |-> TRUE, files |-> sb_dir] ELSE sb_snapshot
    /\ sb_ret' = SandboxRet("snapshot")
    /\ UNCHANGED <<sb_created, sb_dir, sb_history>>

\* rollback(package_name): with a snapshot and a sandbox, the sandbox
\* directory is replaced by a copy of the snapshot and sandbox_rollback is
\* recorded; otherwise nothing happens and False is returned.
SandboxRollback_never(created, dir, snap, history) ==
    [dir |-> dir, history |-> history, done |-> FALSE]
SandboxRollback(created, dir, snap, history) ==
    IF snap.exists /\ created
    THEN [dir |-> snap.files, history |-> Append(history, "sandbox_rollback"), done |-> TRUE]
    ELSE [dir |-> dir, history |-> history, done |-> FALSE]

\* clean(package_name): the sandbox directory is removed and forgotten; the
\* snapshot stays.
Sandbox_clean ==
    /\ sb_ret.seq < MaxSandboxOps
    /\ IF sb_created
       THEN /\ sb_created' = FALSE
            /\ sb_dir' = {}
            /\ sb_history' = Append(sb_history, "sandbox_clean")
       ELSE UNCHANGED <<sb_created, sb_dir, sb_history>>
    /\ sb_ret' = SandboxRet("clean")
    /\ UNCHANGED sb_snapshot

\* build(package_name, build_func): the sandbox is created when there is
\* none, the pre_build hooks run, then build_func, which leaves `out` in the
\* sandbox and returns or raises.  When it raises: self.rollback, raise e.
\* When it returns: the post_build hooks, then the sandbox_build record.
SandboxBuild(created, dir, snap, history, out, raises) ==
    LET history0 == IF created THEN history ELSE Append(history, "sandbox_create")
        trace0 == <<"pre_build", "build_func">>
        r == SandboxRollback(TRUE, out, snap, history0)
    IN IF raises
       THEN [dir |-> r.dir, history |-> r.history, raised |-> "BuildError",
             trace |-> IF r.done THEN Append(trace0, "rollback") ELSE trace0,
             rolled_back |-> r.done]
       ELSE [dir |-> out, history |-> Append(history0, "sandbox_build"), raised |-> "none",
             trace |-> Append(trace0, "post_build"), rolled_back |-> FALSE]

Sandbox_build ==
    /\ sb_ret.seq < MaxSandboxOps
    /\ \E out \in SUBSET SFiles, raises \in BOOLEAN :
          LET r == SandboxBuild(sb_created, sb_dir, sb_snapshot, sb_history, out, raises)
          IN /\ sb_dir' = r.dir
             /\ sb_history' = r.history
             /\ sb_ret' = [op |-> "build", seq |-> sb_ret.seq + 1, raised |-> r.raised,
                           out |-> out, trace |-> r.trace, rolled_back |-> r.rolled_back]
    /\ sb_created' = TRUE
    /\ UNCHANGED sb_snapshot

NextSandbox ==
    \/ Sandbox_create /\ UNCHANGED not_sandboxes_vars
    \/ Sandbox_snapshot /\ UNCHANGED not_sandboxes_vars
    \/ Sandbox_clean /\ UNCHANGED not_sandboxes_vars
    \/ Sandbox_build /\ UNCHANGED not_sandboxes_vars


(***************************************************************************)
(*                          The specifications                             *)
(***************************************************************************)

IdleOthers == IdleBinPkg /\ IdleHistory /\ IdleCache /\ IdleResolver /\ IdleLedger /\ IdleFlags /\ IdleWriters /\ IdleSandbox

BuilderStart ==
    /\ component = "Builder"
    /\ InitBuilder /\ IdleGraph /\ IdleFakeRoot /\ IdleRemover /\ IdleOthers
GraphStart ==
    /\ component = "DependencyGraph"
    /\ IdleBuilder /\ InitGraph /\ IdleFakeRoot /\ IdleRemover /\ IdleOthers
FakeRootStart ==
    /\ component = "FakeRoot"
    /\ IdleBuilder /\ IdleGraph /\ InitFakeRoot /\ IdleRemover /\ IdleOthers
RemoverStart ==
    /\ component = "Remover"
    /\ IdleBuilder /\ IdleGraph /\ InitFakeRoot /\ InitRemover /\ IdleOthers
HooksStart ==
    /\ component = "HookManager"
    /\ IdleBuilder /\ IdleGraph /\ IdleFakeRoot /\ IdleRemover /\ IdleOthers
    /\ InitHookManager

BinPkgStart ==
    /\ component = "BinPackageManager"
    /\ IdleBuilder /\ IdleGraph /\ IdleFakeRoot /\ IdleHistory /\ IdleCache /\ IdleResolver /\ IdleLedger /\ IdleFlags /\ IdleWriters /\ IdleSandbox
    /\ installed_db = EmptyMap /\ resolver = {} /\ r_history = << >> /\ r_ret = NoCall
    /\ InitBinPkg

HistoryStart ==
    /\ component = "History"
    /\ IdleBuilder /\ IdleGraph /\ IdleFakeRoot /\ IdleRemover /\ IdleBinPkg /\ IdleCache /\ IdleResolver /\ IdleLedger /\ IdleFlags /\ IdleWriters /\ IdleSandbox
    /\ InitHistory

CacheStart ==
    /\ component = "CacheManager"
    /\ IdleBuilder /\ IdleGraph /\ IdleFakeRoot /\ IdleRemover /\ IdleBinPkg /\ IdleHistory /\ IdleResolver /\ IdleLedger /\ IdleFlags /\ IdleWriters /\ IdleSandbox
    /\ InitCache

ResolverStart ==
    /\ component = "DependencyResolver"
    /\ IdleBuilder /\ IdleGraph /\ IdleFakeRoot /\ IdleRemover /\ IdleBinPkg /\ IdleHistory /\ IdleCache /\ IdleLedger /\ IdleFlags /\ IdleWriters /\ IdleSandbox
    /\ InitResolver

LedgerStart ==
    /\ component = "History.rollback"
    /\ IdleBuilder /\ IdleGraph /\ IdleFakeRoot /\ IdleRemover /\ IdleBinPkg /\ IdleHistory /\ IdleCache /\ IdleResolver /\ IdleFlags /\ IdleWriters /\ IdleSandbox
    /\ InitLedger

FlagsStart ==
    /\ component = "UseFlags"
    /\ IdleBuilder /\ IdleGraph /\ IdleFakeRoot /\ IdleRemover /\ IdleBinPkg /\ IdleHistory /\ IdleCache /\ IdleResolver /\ IdleLedger /\ IdleWriters /\ IdleSandbox
    /\ InitFlags

WritersStart ==
    /\ component = "writers"
    /\ IdleBuilder /\ IdleGraph /\ IdleFakeRoot /\ IdleRemover /\ IdleBinPkg /\ IdleHistory /\ IdleCache /\ IdleResolver /\ IdleLedger /\ IdleFlags /\ IdleSandbox
    /\ InitWriters

SandboxStart ==
    /\ component = "sandbox"
    /\ IdleBuilder /\ IdleGraph /\ IdleFakeRoot /\ IdleRemover /\ IdleBinPkg /\ IdleHistory /\ IdleCache /\ IdleResolver /\ IdleLedger /\ IdleFlags /\ IdleWriters
    /\ InitSandbox

SpecBuilder  == BuilderStart /\ [][NextBuilder]_vars
SpecGraph    == GraphStart /\ [][NextGraph]_vars
SpecFakeRoot == FakeRootStart /\ [][NextFakeRoot]_vars
SpecRemover  == RemoverStart /\ [][NextRemover]_vars
SpecHooks    == HooksStart /\ [][NextHooks]_vars
SpecBinPkg   == BinPkgStart /\ [][NextBinPkg]_vars
SpecHistory  == HistoryStart /\ [][NextHistory]_vars
SpecCache    == CacheStart /\ [][NextCache]_vars
SpecResolver == ResolverStart /\ [][NextResolver]_vars
SpecLedger   == LedgerStart /\ [][NextLedger]_vars
SpecFlags    == FlagsStart /\ [][NextFlags]_vars
SpecWriters  == WritersStart /\ [][NextWriters]_vars
SpecSandbox  == SandboxStart /\ [][NextSandbox]_vars

Init ==
    \/ BuilderStart \/ GraphStart \/ FakeRootStart \/ RemoverStart \/ HooksStart
    \/ BinPkgStart \/ HistoryStart \/ CacheStart \/ ResolverStart \/ LedgerStart \/ FlagsStart \/ WritersStart \/ SandboxStart

Next ==
    \/ component = "Builder" /\ NextBuilder
    \/ component = "DependencyGraph" /\ NextGraph
    \/ component = "FakeRoot" /\ NextFakeRoot
    \/ component = "Remover" /\ NextRemover
    \/ component = "HookManager" /\ NextHooks
    \/ component = "BinPackageManager" /\ NextBinPkg
    \/ component = "History" /\ NextHistory
    \/ component = "CacheManager" /\ NextCache
    \/ component = "DependencyResolver" /\ NextResolver
    \/ component = "History.rollback" /\ NextLedger
    \/ component = "UseFlags" /\ NextFlags
    \/ component = "writers" /\ NextWriters
    \/ component = "sandbox" /\ NextSandbox

Spec == Init /\ [][Next]_vars


(***************************************************************************)
(*                              The claims                                 *)
(***************************************************************************)

\* ---- Builder ----

\* C1: at every step of promotion dest_path holds either the complete
\* previous tree or the complete newly staged tree.
C1_DestNeverPartial ==
    dest_path = dest_before \/ dest_path = install_prefix

\* C2: when a configure/compile/install command or a recipe hook raises,
\* dest_path is exactly as it was before the build; dest_path differs from
\* what it was only once the install command and the post_install hook have
\* both run to completion and promotion has begun.
C2_FailedBuildNeverReachesDest ==
    /\ b_exc.stage \notin {"none", "promote"} => dest_path = dest_before
    /\ dest_path # dest_before =>
          /\ {"staged_install", "post_install", "promote"} \subseteq Range(b_stages)
          /\ b_exc.stage \in {"none", "promote"}
          /\ b_pc \in {"rmtree", "copytree", "copy2", "done", "failed"}

\* A command of the install stage failed while a populated dest_path existed.
C2_Witness ==
    /\ b_exc = [stage |-> "staged_install", kind |-> "RuntimeError"]
    /\ DOMAIN dest_before.files = BPaths
    /\ DOMAIN install_prefix.files # {}

StageOrder ==
    <<"prepare_sandbox", "pre_configure", "configure_compile", "post_build",
      "pre_install", "staged_install", "post_install", "promote">>

\* C3: the stages of build() then install() start in the order prepare_sandbox,
\* pre_configure, configure/compile, post_build, pre_install, staged install,
\* post_install, promote, none skipped or repeated; a stage starts only when
\* the one before it completed, and after a stage raised no stage starts.
C3_StagesInOrder ==
    /\ IsPrefix(b_stages, StageOrder)
    /\ b_pc = "done" => b_stages = StageOrder /\ b_exc = NoExc
    /\ b_exc # NoExc => b_pc = "failed" /\ Last(b_stages) = b_exc.stage
    /\ b_pc \in Range(StageOrder) => b_pc = StageOrder[Len(b_stages) + 1]

\* A cmake recipe went through all eight stages.
C3_Witness ==
    /\ b_pc = "done"
    /\ recipe.build_system = "cmake"
    /\ Len(b_stages) = 8

\* C30: the same six build systems are recognised wherever one is
\* dispatched on: for each of them no dispatch of build() or install()
\* raises ValueError and create_base_recipe and validate_recipe accept it;
\* for any other value the build never completes, its dispatch raises
\* ValueError, and create_base_recipe and validate_recipe raise ValueError.
RecognizedBuildSystems == {"autotools", "cmake", "meson", "ninja", "rust", "python"}
C30_SameSixBuildSystems ==
    LET build_system == recipe.build_system
    IN IF build_system \in RecognizedBuildSystems
       THEN /\ ~(b_pc = "failed" /\ b_exc.kind = "ValueError")
            /\ create_base_recipe(build_system) = "created"
            /\ validate_recipe(recipe) = "validated"
       ELSE /\ b_pc # "done"
            /\ (b_pc = "failed" /\ b_exc.stage = "configure_compile") =>
                    b_exc.kind = "ValueError"
            /\ create_base_recipe(build_system) = "ValueError"
            /\ validate_recipe(recipe) = "ValueError"

\* C31: with dry_run set no command is spawned (every run returns the
\* sentinel, so no command fails) and nothing is done to the real system:
\* through build() and install() dest_path stays what it was when the
\* Builder was constructed.
C31_DryRunLeavesDest ==
    dry_run =>
        /\ dest_path = dest_before
        /\ b_exc.kind # "TimeoutExpired"

\* ---- DependencyGraph ----

Pos(order, x) == CHOOSE i \in 1..Len(order) : order[i] = x

\* There is a path of at least one edge from n back to n.
OnCycle(g, n) ==
    \E k \in 1..Cardinality(Pkgs) : \E path \in [0..k -> Pkgs] :
        /\ path[0] = n /\ path[k] = n
        /\ \A i \in 0..(k - 1) : <<path[i], path[i + 1]>> \in Edges(g)
HasCycle(g) == \E n \in Pkgs : OnCycle(g, n)

\* C4: when topo_sort returns, its list holds every node exactly once and
\* every dependency d before each package p that depends on it; for the
\* edges a->b, b->c it is [c, b, a].
C4_TopoDependenciesFirst ==
    (g_ret.op = "topo_sort" /\ ~g_ret.raised) =>
        /\ Len(g_ret.order) = Cardinality(nodes)
        /\ Range(g_ret.order) = nodes
        /\ \A e \in Edges(graph) : Pos(g_ret.order, e[2]) < Pos(g_ret.order, e[1])
        /\ Edges(graph) = {<<"a", "b">>, <<"b", "c">>} => g_ret.order = <<"c", "b", "a">>

\* C5: detect_cycles returns true exactly when the graph has a directed cycle,
\* and topo_sort raises exactly when it has one.
C5_CycleDetection ==
    /\ g_ret.op = "detect_cycles" => (g_ret.found <=> HasCycle(graph))
    /\ g_ret.op = "topo_sort" => (g_ret.raised <=> HasCycle(graph))

\* topo_sort raised on a graph whose cycle does not pass through every node.
C5_Witness ==
    /\ g_ret.op = "topo_sort"
    /\ g_ret.raised
    /\ \E n \in nodes : ~OnCycle(graph, n)

\* The weighted edges of a graph dict: <<source, target, weight>>.
WeightedEdges(g) ==
    UNION { { <<p, g[p][i][1], g[p][i][2]>> : i \in 1..Len(g[p]) } : p \in DOMAIN g }

\* C21: a fresh graph loaded with from_json(g.to_json()) has the node set
\* and the weighted edges of g, for every g that add_package and
\* remove_package (and from_dict) calls build.
C21_JsonRoundTrip ==
    g_io.op = "round_trip" =>
        /\ g_io.loaded.nodes = nodes
        /\ WeightedEdges(g_io.loaded.graph) = WeightedEdges(graph)

\* C22: every edge source and every edge target is a node; and a
\* remove_package(p) leaves p out of the nodes, without an adjacency entry
\* and in nobody's adjacency, with every other node and every edge that
\* does not involve p as before.
C22_EdgesStayWithinNodes ==
    /\ \A e \in WeightedEdges(graph) : e[1] \in nodes /\ e[2] \in nodes
    /\ g_io.op = "remove_package" =>
          LET p == g_io.package
          IN /\ p \notin nodes
             /\ p \notin DOMAIN graph
             /\ \A e \in WeightedEdges(graph) : e[1] # p /\ e[2] # p
             /\ nodes = g_io.before.nodes \ {p}
             /\ WeightedEdges(graph) =
                   { e \in WeightedEdges(g_io.before.graph) : e[1] # p /\ e[2] # p }

\* b was removed from a graph loaded by from_dict in which a depended on b
\* and b on a and c.
C22_Witness ==
    /\ g_io.op = "remove_package"
    /\ g_io.package = "b"
    /\ g_plain
    /\ <<"a", "b", 2>> \in WeightedEdges(g_io.before.graph)
    /\ <<"b", "c", 1>> \in WeightedEdges(g_io.before.graph)
    /\ nodes = {"a", "c"}

\* ---- FakeRoot ----

IsRollbackStep == fr_ret'.op = "rollback"

\* C6: snapshot(), then install_files/create_symlink calls, then rollback()
\* leaves the manifest equal to the snapshot's map, keys and values; a second
\* rollback() right after changes neither the manifest, the snapshot list nor
\* the files on disk.
C6_RollbackRestoresExactly ==
    [][ /\ (IsRollbackStep /\ fr_phase = "snapshot") =>
                installed_files' = Last(snapshots).files
        /\ (IsRollbackStep /\ fr_phase = "rolled_back") =>
                UNCHANGED <<installed_files, snapshots, sandbox_fs>> ]_vars

\* C7: rollback leaves every path that is a key of the popped snapshot as it
\* is, on disk and in the manifest.
C7_RollbackKeepsSnapshotEntries ==
    [][ (IsRollbackStep /\ snapshots # << >>) =>
            \A f \in DOMAIN Last(snapshots).files :
                /\ sandbox_fs'[OnDisk(f)] = sandbox_fs[OnDisk(f)]
                /\ f \in DOMAIN installed_files =>
                      /\ f \in DOMAIN installed_files'
                      /\ installed_files'[f] = installed_files[f] ]_vars

\* C8: after a rollback with a snapshot to pop, every path added to the
\* manifest since that snapshot is out of the manifest and gone from disk;
\* from a snapshot of an empty sandbox the manifest is empty afterwards.
C8_RollbackRemovesAdded ==
    [][ (IsRollbackStep /\ snapshots # << >>) =>
            /\ \A f \in DOMAIN installed_files \ DOMAIN Last(snapshots).files :
                  /\ f \notin DOMAIN installed_files'
                  /\ sandbox_fs'[OnDisk(f)] = Absent
            /\ Last(snapshots).files = EmptyMap => installed_files' = EmptyMap ]_vars

\* C9: rollback with n >= 1 snapshots leaves the older n-1 as they were and
\* restores relative to the last one taken; with none it changes nothing.
C9_RollbackPopsLast ==
    [][ IsRollbackStep =>
            IF snapshots = << >>
            THEN UNCHANGED <<installed_files, snapshots, sandbox_fs, root_exists>>
            ELSE /\ snapshots' = Front(snapshots)
                 /\ fr_ret'.last_snap = Last(snapshots)
                 /\ DOMAIN installed_files' =
                        DOMAIN installed_files \cap DOMAIN Last(snapshots).files ]_vars

\* A rollback popped the second of two different snapshots and removed a path.
C9_Witness ==
    /\ fr_ret.op = "rollback"
    /\ Len(snapshots) = 1
    /\ snapshots[1] # fr_ret.last_snap
    /\ fr_ret.to_remove # {}

\* ---- Remover ----

\* C10: remove_package(p, force=false) while an installed package depends on
\* p returns false with a conflict error, runs no hook, deletes no file of
\* the sandbox and leaves the installed database as it is.
C10_RemoveRefusedOnDependents ==
    [][ (r_history' # r_history
         /\ r_ret'.op = "remove_package"
         /\ ~r_ret'.force
         /\ find_reverse_dependencies(installed_db, r_ret'.package) # {}) =>
            /\ r_ret'.result = FALSE
            /\ r_ret'.error = "Conflict"
            /\ Last(r_history').status = "error"
            /\ UNCHANGED <<hook_history, sandbox_fs, installed_db>> ]_vars

\* A remove_package call returned in this step.
IsRemoveStep == r_ret'.op = "remove_package" /\ r_history' # r_history

\* C11: remove_package(p, force=true) on an installed p, none of whose steps
\* raises an error of its own, returns true, takes p out of the installed
\* database and records a success entry, dependents or not; the dependents'
\* recipes stay in the database.
C11_ForcedRemoveSucceeds ==
    [][ (IsRemoveStep
         /\ r_ret'.force
         /\ r_ret'.package \in DOMAIN installed_db
         /\ r_ret'.error \notin {"ConditionError", "DatabaseError"}) =>
            /\ r_ret'.result = TRUE
            /\ r_ret'.package \notin DOMAIN installed_db'
            /\ Last(r_history').status = "success"
            /\ \A d \in find_reverse_dependencies(installed_db, r_ret'.package) :
                  d \in DOMAIN installed_db' /\ installed_db'[d] = installed_db[d] ]_vars

\* C12: when a step of remove_package raises, the call returns false, appends
\* a failure entry with no removed files, and the sandbox is as it was when
\* the call took its snapshot: every file that was on disk is there again and
\* the manifest equals the snapshot.
C12_FailedRemoveRestoresSandbox ==
    [][ (IsRemoveStep /\ r_ret'.error # "none") =>
            /\ r_ret'.result = FALSE
            /\ Last(r_history').status = "error"
            /\ Last(r_history').removed_files = {}
            /\ \A f \in SPaths : PathExists(sandbox_fs[f]) => sandbox_fs'[f] = sandbox_fs[f]
            /\ installed_files' = installed_files ]_vars

\* C36: a remove_package call that succeeds has taken the snapshot, checked
\* the reverse dependencies, run the pre_remove hooks, deleted the package's
\* files from the sandbox, run the post_remove hooks, called
\* installed_db.remove_package and appended the success entry, in that
\* order; a file whose deletion failed is still on disk, the package's other
\* files are gone, and the entry's removed_files are the files that were
\* there and whose deletion did not fail.
C36_RemoveOrder ==
    [][ (IsRemoveStep /\ r_ret'.result) =>
            LET package == r_ret'.package
                files == get_files(installed_db, package)
                entry == Last(r_history')
            IN /\ r_ret'.steps = <<"_snapshot", "_check_dependencies", "pre_remove",
                                   "_remove_files", "post_remove",
                                   "installed_db.remove_package", "history">>
               /\ \A i, j \in (Len(hook_history) + 1)..Len(hook_history') :
                     (hook_history'[i].stage = "post_remove"
                      /\ hook_history'[j].stage = "pre_remove") => j < i
               /\ package \notin DOMAIN installed_db'
               /\ entry.status = "success"
               /\ entry.removed_files =
                     { f \in files : PathExists(sandbox_fs[f]) } \ r_ret'.stuck
               /\ \A f \in files \ r_ret'.stuck : ~PathExists(sandbox_fs'[f])
               /\ \A f \in r_ret'.stuck : sandbox_fs'[f] = sandbox_fs[f] ]_vars

\* A removal of a succeeded although src/a could not be deleted: usr/bin/b
\* was deleted all the same and is the only file recorded as removed.
C36_Witness ==
    /\ r_ret.op = "remove_package" /\ r_ret.result /\ r_ret.package = "a"
    /\ r_ret.stuck = {"src/a"}
    /\ PathExists(sandbox_fs["src/a"])
    /\ ~PathExists(sandbox_fs["usr/bin/b"])
    /\ Last(r_history).removed_files = {"usr/bin/b"}
    /\ Len(r_ret.steps) = 7

\* C37: a remove_package call leaves FakeRoot.snapshots as it found it,
\* whether it returns true or false.
C37_SnapshotsBalanced ==
    [][ IsRemoveStep => snapshots' = snapshots ]_vars

\* FakeRoot.audit()["missing_files"]: the manifest keys that do not exist
\* on disk.
MissingFiles == { f \in DOMAIN installed_files : ~PathExists(sandbox_fs[OnDisk(f)]) }

\* C38: every path of the manifest exists under the sandbox root: audit()
\* reports no missing file, after install_files and remove_package calls.
C38_ManifestOnDisk == MissingFiles = {}

\* C13: remove_packages(list, force) leaves one history entry per element of
\* the list, in list order, whatever each attempt returned, and returns a map
\* from each package of the list to what its (last) attempt returned.
C13_RemovePackagesAttemptsAll ==
    [][ (r_ret'.op = "remove_packages" /\ r_ret' # r_ret) =>
            LET packages == r_ret'.packages
                n == Len(packages)
                new == SubSeq(r_history', Len(r_history) + 1, Len(r_history'))
            IN /\ Len(r_history') = Len(r_history) + n
               /\ SubSeq(r_history', 1, Len(r_history)) = r_history
               /\ \A i \in 1..n : new[i].package = packages[i]
               /\ DOMAIN r_ret'.results = Range(packages)
               /\ \A i \in 1..n :
                     (\A j \in (i + 1)..n : packages[j] # packages[i]) =>
                        (r_ret'.results[packages[i]] <=> new[i].status = "success") ]_vars

\* remove_packages went on to remove b after the attempt on a had failed.
C13_Witness ==
    /\ r_ret.op = "remove_packages"
    /\ r_ret.packages = <<"a", "b">>
    /\ Len(r_history) = 2
    /\ r_history[1].status = "error"
    /\ r_history[2].status = "success"
    /\ r_ret.results = [p \in RPkgs |-> p = "b"]

\* ---- HookManager ----

\* C14: run_hooks executes the applicable hooks (those whose condition does
\* not skip them) one at a time in ascending priority, whatever the order
\* they were registered in: what one hook executes (its func, then its
\* commands, then its history entry) is contiguous in the call's trace, func
\* first, and a hook that starts later never has a lower priority.
C14_HooksRunInPriorityOrder ==
    (hook_trace # << >> /\ hook_trace[1][1] = 0) =>
        LET stage == hook_trace[1][2]
            package == hook_trace[1][3]
            ev == Tail(hook_trace)
            n == Len(ev)
        IN /\ { ev[j][1] : j \in 1..n } =
                { i \in Applicable(hooks, stage, package) : hooks[i].condition # "false" }
           /\ \A j, l \in 1..n : \A k \in j..l :
                 ev[j][1] = ev[l][1] => ev[k][1] = ev[j][1]
           /\ \A j, k \in 1..n :
                 (j < k /\ ev[j][1] = ev[k][1]) => (ev[k][2] # "func" /\ ev[j][2] # "history")
           /\ \A i \in { ev[j][1] : j \in 1..n } :
                 \E j \in 1..n : ev[j] = <<i, "history">>
           /\ \A j, k \in 1..n :
                 j < k => hooks[ev[j][1]].priority <= hooks[ev[k][1]].priority

\* Hooks registered with priorities 20, 10, 30 ran second, first, third.
C14_Witness ==
    /\ Len(hooks) = 3
    /\ hooks[1].priority = 20 /\ hooks[2].priority = 10 /\ hooks[3].priority = 30
    /\ hook_trace # << >>
    /\ hook_trace[1][1] = 0
    /\ SelectSeq(Tail(hook_trace), LAMBDA e : e[2] = "history") =
          << <<2, "history">>, <<1, "history">>, <<3, "history">> >>
    /\ \E j \in 1..Len(hook_trace) : hook_trace[j] = <<2, "func">>
    /\ \E j \in 1..Len(hook_trace) : hook_trace[j] = <<1, "command">>

\* What a run_hooks call did: the events of its trace after the header, the
\* hooks that executed anything, in the order they started, and the events
\* of one hook.
HookRunEvents == Tail(hook_trace)
EventsOf(i, kind) ==
    { j \in 1..Len(HookRunEvents) : HookRunEvents[j] = <<i, kind>> }
HistoryEvents == SelectSeq(HookRunEvents, LAMBDA e : e[2] = "history")
Failing(h) == h.func = "raises" \/ \E k \in 1..Len(h.commands) : h.commands[k] = "fail"
FirstFailure(commands) ==
    CHOOSE k \in 1..Len(commands) :
        commands[k] = "fail" /\ \A j \in 1..(k - 1) : commands[j] # "fail"

\* C33: in run_hooks, a hook whose func raises runs none of its commands and
\* one whose command exits non-zero runs none of the commands after it; the
\* hook's rollback, if it has one, is then invoked exactly once, and whether
\* the rollback returns or raises the hook gets one history entry, with an
\* error status, and run_hooks goes on.  A hook that did not fail has no
\* rollback invoked.
C33_FailedHookRollsBack ==
    (hook_trace # << >> /\ hook_trace[1][1] = 0) =>
        \A i \in { HookRunEvents[j][1] : j \in 1..Len(HookRunEvents) } :
            LET h == hooks[i]
                entry == CHOOSE k \in 1..Len(HistoryEvents) : HistoryEvents[k][1] = i
            IN /\ Cardinality(EventsOf(i, "history")) = 1
               /\ IF Failing(h)
                  THEN /\ Cardinality(EventsOf(i, "command")) =
                             IF h.func = "raises" THEN 0 ELSE FirstFailure(h.commands)
                       /\ Cardinality(EventsOf(i, "rollback")) =
                             IF h.rollback = "none" THEN 0 ELSE 1
                       /\ \A r \in EventsOf(i, "rollback") : \A e \in EventsOf(i, "history") :
                             r < e
                       /\ hook_history[entry].status = "error"
                  ELSE /\ EventsOf(i, "rollback") = {}
                       /\ Cardinality(EventsOf(i, "command")) = Len(h.commands)
                       /\ hook_history[entry].status = "success"

\* A hook's first command failed, its second did not run, its rollback
\* raised, and its error entry was appended all the same.
C33_Witness ==
    /\ hook_trace # << >> /\ hook_trace[1][1] = 0
    /\ Len(hooks) >= 1
    /\ hooks[1].commands = <<"fail", "ok">> /\ hooks[1].rollback = "raises"
    /\ HookRunEvents = << <<1, "command">>, <<1, "rollback">>, <<1, "history">> >>
    /\ hook_history = <<[stage |-> "pre_build", package |-> "a", status |-> "error"]>>

\* C34: once a hook has failed in a run_hooks call, no later hook of that
\* call executes anything.
C34_FailedHookAbortsStage ==
    (hook_trace # << >> /\ hook_trace[1][1] = 0) =>
        \A j, k \in 1..Len(HookRunEvents) :
            (j < k /\ Failing(hooks[HookRunEvents[j][1]])) =>
                HookRunEvents[k][1] = HookRunEvents[j][1]

IsInstallStep == bp_ret'.op = "install_binpkg" /\ bp_ret'.seq # bp_ret.seq

\* The tarball install_binpkg looks for, and whether the sidecar's digest is
\* that of the tarball's bytes.
InstallTarball(package) == TarName(package, "gz")
DigestMatches(package) ==
    binpkg_dir[PkgInfoName(package)].sha256 = Sha256(binpkg_dir[InstallTarball(package)])

\* C15: install_binpkg fails with a not-found error when the tarball is not
\* in binpkg_dir, and with an integrity error when the sidecar is there and
\* its sha256 is not the tarball's digest; in both cases no pre_install or
\* post_install hook runs, nothing is extracted and no audit entry is added.
C15_InstallRejectsMissingOrCorrupt ==
    [][ IsInstallStep =>
          LET package == bp_ret'.package
              missing == InstallTarball(package) \notin DOMAIN binpkg_dir
              corrupt == /\ ~missing
                         /\ PkgInfoName(package) \in DOMAIN binpkg_dir
                         /\ ~DigestMatches(package)
          IN /\ missing => bp_ret'.error = "FileNotFoundError"
             /\ corrupt => bp_ret'.error = "ValueError"
             /\ (missing \/ corrupt) =>
                   /\ hook_history' = hook_history
                   /\ hook_trace' = << >>
                   /\ bp_dest' = bp_dest
                   /\ bp_audit' = bp_audit ]_vars

\* An install was refused for a changed tarball, with hooks registered and
\* nothing extracted.
C15_Witness ==
    /\ bp_ret.op = "install_binpkg"
    /\ bp_ret.error = "ValueError"
    /\ binpkg_dir[TarName("p", "gz")].modified
    /\ Len(hooks) = 2
    /\ hook_history = << >>
    /\ bp_dest = {}

\* The files of a tree, rooted at the destination.
RootedAtDest(tree) == { <<f>> : f \in tree }

\* C16: installing an unmodified package that create_binpkg made from a
\* directory into a fresh destination leaves in the destination the
\* directory's files at the same relative paths.
C16_InstallReproducesTree ==
    [][ (IsInstallStep /\ bp_ret'.error = "none" /\ bp_dest = {}
         /\ ~binpkg_dir[InstallTarball(bp_ret'.package)].modified) =>
            bp_dest' = RootedAtDest(binpkg_dir[InstallTarball(bp_ret'.package)].tree) ]_vars

\* The packages create_binpkg made with either compression that are still
\* as it made them: the tarball unmodified, the sidecar that of the tarball.
Unmodified(package) ==
    /\ PkgInfoName(package) \in DOMAIN binpkg_dir
    /\ LET tarname == TarName(package, binpkg_dir[PkgInfoName(package)].compress)
       IN /\ tarname \in DOMAIN binpkg_dir
          /\ binpkg_dir[PkgInfoName(package)].sha256 = Sha256(binpkg_dir[tarname])

\* C17: a package made by create_binpkg with compress gz or xz, while
\* unmodified, is found by install_binpkg, validated by validate_binpkg, and
\* listed with its sidecar metadata by list_binpkgs.
C17_CreatedPackagesUsable ==
    [][ /\ (IsInstallStep /\ Unmodified(bp_ret'.package)) => bp_ret'.found
        /\ (bp_ret'.op = "validate_binpkg" /\ bp_ret'.seq # bp_ret.seq
              /\ Unmodified(bp_ret'.package)) => bp_ret'.valid
        /\ (bp_ret'.op = "list_binpkgs" /\ bp_ret'.seq # bp_ret.seq) =>
              \A package \in BPkgs :
                 Unmodified(package) => binpkg_dir[PkgInfoName(package)] \in bp_ret'.listed ]_vars

\* C20: a failing operation appends a history entry with an error status
\* before it returns or raises: a remove_package that fails, an
\* install_binpkg that raises, a hook that fails in run_hooks.
C20_FailuresAreRecorded ==
    [][ /\ (IsRemoveStep /\ ~r_ret'.result) =>
              (Len(r_history') = Len(r_history) + 1 /\ Last(r_history').status = "error")
        /\ (IsInstallStep /\ bp_ret'.error # "none") =>
              /\ Len(bp_audit') = Len(bp_audit) + 1
              /\ Last(bp_audit').action = "install_binpkg"
              /\ Last(bp_audit').status = "error"
        /\ \A j \in 1..Len(hook_trace') :
              (hook_trace' # hook_trace /\ Len(hook_trace'[j]) = 2
               /\ hook_trace'[j][2] = "history"
               /\ HookStatus(hooks[hook_trace'[j][1]]) = "error") =>
                 \E k \in (Len(hook_history) + 1)..Len(hook_history') :
                    hook_history'[k].status = "error" ]_vars

\* ---- History ----

\* C18: every record or rollback call leaves the journal as it was when the
\* call loaded it plus the entries the call appended at the end: a call that
\* wrote leaves the old entries, unchanged and in order, followed by one new
\* entry whose id is the number of entries before it plus one; a call that
\* did not write leaves the file as it was; ids increase strictly down the
\* file.
C18_JournalAppendOnly ==
    [][ /\ (h_pc = "writing" /\ h_pc' = "idle") =>
              LET before == h_ret'.before
                  after == json_load(journal')
              IN /\ after.ok
                 /\ Len(after.value) = Len(before) + 1
                 /\ SubSeq(after.value, 1, Len(before)) = before
                 /\ Last(after.value).id = Len(before) + 1
        /\ (h_pc = "idle" /\ h_pc' = "idle") => journal' = journal
        /\ (h_pc' = "idle" /\ json_load(journal').ok) =>
              LET after == json_load(journal').value
              IN \A i, j \in 1..Len(after) : i < j => after[i].id < after[j].id ]_vars

\* C19: at every point of a record call, and after one that was cut short,
\* the journal file holds a complete JSON array, the one before the call or
\* the one after it, and that is what a reader of the file gets.
C19_JournalReplacedAtomically ==
    /\ json_load(journal).ok
    /\ h_pc = "writing" => json_load(journal).value \in {h_ret.before, h_ret.history}
    /\ h_read.ok

\* What the two processes' journal file parses to, and the entries their
\* record calls returned after writing.
WrittenFile == json_load(w_file)
Recorded == { <<w, i>> : w \in Writers, i \in 1..MaxWrites } \cap
            { x \in Writers \X (1..MaxWrites) : x[2] <= Len(w_audit[x[1]]) }

\* C39: record is a read-modify-write of the journal file without a lock.
\* As long as no record call of one process began while a call of the other
\* was under way, no call raises, and between calls the file holds one entry
\* per call that returned, with the ids 1, 2, ... down the file, each entry
\* the one its call appended.  (With overlapping calls this fails: the
\* witness below.)
C39_SerialWritersKeepJournal ==
    ~w_overlap =>
        /\ \A w \in Writers : w_err[w] = "none"
        /\ (\A w \in Writers : w_pc[w] = "idle") =>
              /\ WrittenFile.ok
              /\ Len(WrittenFile.value) = Cardinality(Recorded)
              /\ \A i \in 1..Len(WrittenFile.value) : WrittenFile.value[i].id = i
              /\ \A x \in Recorded :
                    LET entry == w_audit[x[1]][x[2]]
                    IN entry.id <= Len(WrittenFile.value)
                       /\ WrittenFile.value[entry.id] = entry

\* Two record calls overlapped, both returned, and the file holds one entry:
\* the other is lost, and both processes were given id 1.
C39_Witness ==
    /\ w_overlap
    /\ \A w \in Writers : w_pc[w] = "idle" /\ w_err[w] = "none" /\ Len(w_audit[w]) = 1
    /\ w_audit["w1"][1].id = 1 /\ w_audit["w2"][1].id = 1
    /\ WrittenFile.ok
    /\ Len(WrittenFile.value) = 1

\* ---- CacheManager ----

IsCacheStep(op) == c_ret'.op = op /\ c_ret'.seq # c_ret.seq
ValidIn(fs, d, filename) == filename \in DOMAIN fs[d] /\ _is_valid(fs[d][filename])

\* C23: get_file(name) returns the file of the first root, in configured
\* order, that holds a valid file of that name, and None when no root does;
\* the second root's file is never returned while the first root holds a
\* valid one.
C23_GetFileFirstValidRoot ==
    [][IsCacheStep("get_file") =>
          LET filename == c_ret'.name
          IN c_ret'.result = IF ValidIn(cache_fs, 1, filename) THEN 1
                             ELSE IF ValidIn(cache_fs, 2, filename) THEN 2
                             ELSE 0]_vars

\* get_file skipped an expired file in the first root and returned the
\* second root's.
C23_Witness ==
    /\ c_ret.op = "get_file" /\ c_ret.result = 2
    /\ c_ret.name \in DOMAIN cache_fs[1]
    /\ cache_fs[1][c_ret.name].expired

\* C24: after clean_cache() every file left in every root satisfies
\* _is_valid, after clean_cache(force=True) no file is left in any root, and
\* an unforced clean leaves every file that was valid before it.
C24_CleanLeavesOnlyValid ==
    [][IsCacheStep("clean_cache") =>
          /\ \A d \in CacheRoots : \A f \in DOMAIN cache_fs'[d] : _is_valid(cache_fs'[d][f])
          /\ c_ret'.force => \A d \in CacheRoots : DOMAIN cache_fs'[d] = {}
          /\ ~c_ret'.force =>
                \A d \in CacheRoots : \A f \in DOMAIN cache_fs[d] :
                    _is_valid(cache_fs[d][f]) =>
                        f \in DOMAIN cache_fs'[d] /\ cache_fs'[d][f] = cache_fs[d][f]]_vars

\* C25: no file that get_file returns, and no file that _is_valid accepts,
\* is larger than the max_size_mb quota.
C25_ValidEntriesWithinQuota ==
    /\ (c_ret.op = "get_file" /\ c_ret.result # 0) =>
            ~cache_fs[c_ret.result][c_ret.name].oversize
    /\ \A d \in DOMAIN cache_fs : \A f \in DOMAIN cache_fs[d] :
            _is_valid(cache_fs[d][f]) => ~cache_fs[d][f].oversize

\* ---- DependencyResolver ----

\* The recipe a package name stands for during a call, its listed
\* dependencies with their gate flags, and the packages reached from the
\* recipe through the listings whose gate is empty or in use_flags.
RecipeOf(p) == IF p = rs_recipe.name THEN rs_recipe ELSE get_recipe(rs_db, p)
Listed(r) == Range(r.build_deps) \cup Range(r.runtime_deps) \cup Range(r.optional_deps)
IncludedDeps(p, use_flags) ==
    { l[1] : l \in { x \in Listed(RecipeOf(p)) :
                        x[2] = "" \/ (use_flags.given /\ x[2] \in use_flags.flags) } }
RECURSIVE ReachedFrom(_, _)
ReachedFrom(S, use_flags) ==
    LET T == S \cup UNION { IncludedDeps(p, use_flags) : p \in S }
    IN IF T = S THEN S ELSE ReachedFrom(T, use_flags)
Reached(use_flags) == ReachedFrom({rs_recipe.name}, use_flags)

\* C26: the list resolve returns holds, once each, exactly the recipe's
\* package and the packages reached from it through dependencies whose gate
\* flag is empty or in use_flags: a dependency listed by a visited recipe
\* with such a gate is in it, and one gated by a flag outside use_flags (any
\* flag when use_flags is None) is not, nor is anything reached only
\* through it.
C26_GatedDependencies ==
    (rs_ret.op = "resolve" /\ ~rs_ret.raised) =>
        /\ Range(rs_ret.order) = Reached(rs_ret.use_flags)
        /\ Len(rs_ret.order) = Cardinality(Reached(rs_ret.use_flags))

\* resolve without use_flags left out b, gated by ssl, and c, reached only
\* through b.
C26_Witness ==
    /\ rs_ret.op = "resolve" /\ ~rs_ret.raised /\ ~rs_ret.use_flags.given
    /\ rs_recipe.optional_deps = <<<<"b", "ssl">>>>
    /\ rs_db.b.runtime_deps = <<<<"c", "">>>>
    /\ rs_ret.order = <<"a">>

\* C27: the list find_missing returns is a sublist of the resolved list (the
\* same packages in the same relative order), holds no installed package,
\* and holds every dependency reached from the recipe through included
\* gates that is not installed.
C27_FindMissing ==
    (rs_ret.op = "find_missing" /\ ~rs_ret.raised) =>
        LET missing == rs_ret.order
            resolved == rs_ret.resolved
            at(pkg) == CHOOSE i \in 1..Len(resolved) : resolved[i] = pkg
        IN /\ Range(resolved) = Reached(rs_ret.use_flags)
           /\ Range(missing) \subseteq Range(resolved)
           /\ \A i, j \in 1..Len(missing) : i < j => at(missing[i]) < at(missing[j])
           /\ Range(missing) \cap rs_installed = {}
           /\ Reached(rs_ret.use_flags) \ rs_installed \subseteq Range(missing)

\* find_missing dropped one installed package of three resolved ones and
\* kept a dependency of a dependency.
C27_Witness ==
    /\ rs_ret.op = "find_missing" /\ ~rs_ret.raised
    /\ Len(rs_ret.resolved) = 3 /\ Len(rs_ret.order) = 2
    /\ rs_recipe.runtime_deps = << >> /\ rs_recipe.optional_deps = << >>
    /\ rs_recipe.build_deps = <<<<"b", "">>>>
    /\ "c" \in Range(rs_ret.order)

\* ---- History: rollback and list_history ----

CachedCopy(fpath) ==
    hx_cfg.cache_manager /\ \E d \in CacheRoots : ValidIn(hx_cache, d, path_name(fpath))

\* C28: rollback(action_id) of an id the journal holds restores every file
\* of that action that has a cached copy and removes the sandbox counterpart
\* of every other one, then appends one entry with status rolled_back whose
\* details refer to action_id; for an id the journal does not hold it raises
\* and the journal is as before.
C28_RollbackHandlesFiles ==
    hx_ret.op = "rollback" =>
        LET before == hx_ret.journal
            found == { i \in 1..Len(before) : before[i].id = hx_ret.action_id }
        IN IF found = {}
           THEN hx_ret.raised = "ValueError" /\ hx_journal = before
           ELSE /\ hx_ret.raised = "none"
                /\ Len(hx_journal) = Len(before) + 1
                /\ SubSeq(hx_journal, 1, Len(before)) = before
                /\ Last(hx_journal).status = "rolled_back"
                /\ Last(hx_journal).details.rolled_back_id = hx_ret.action_id
                /\ \A i \in found : \A fpath \in Range(before[i].details.files) :
                      IF CachedCopy(fpath)
                      THEN hx_real[fpath] = "restored"
                      ELSE relative_to_anchor(fpath) \notin hx_sandbox

\* C29: list_history returns the last `limit` of the journal entries that
\* pass every filter given, in journal order: never more than `limit`
\* entries, and none that fails a filter.
C29_ListHistoryFiltersThenTruncates ==
    hx_ret.op = "list_history" =>
        LET Passes(h) ==
                /\ hx_ret.package # "None" => h.package = hx_ret.package
                /\ hx_ret.action_type # "None" => h.action = hx_ret.action_type
                /\ hx_ret.status # "None" => h.status = hx_ret.status
            matching == SelectSeq(hx_ret.journal, Passes)
            n == IF Len(matching) < hx_ret.limit THEN Len(matching) ELSE hx_ret.limit
        IN /\ hx_ret.result = SubSeq(matching, Len(matching) - n + 1, Len(matching))
           /\ Len(hx_ret.result) <= hx_ret.limit
           /\ \A i \in 1..Len(hx_ret.result) : Passes(hx_ret.result[i])

\* ---- UseFlags ----

\* The call that last set the flags of a package, and the call that last
\* set a flag globally (0 when there was none).
LastCall(S) == IF S = {} THEN 0 ELSE CHOOSE i \in S : \A j \in S : j <= i
LastPackageCall(package) ==
    LastCall({ i \in 1..Len(uf_calls) :
                 uf_calls[i].op = "set_package_flags" /\ uf_calls[i].package = package })
LastGlobalCall(flag) ==
    LastCall({ i \in 1..Len(uf_calls) :
                 uf_calls[i].op \in {"enable_global", "disable_global"}
                 /\ uf_calls[i].flag = flag })

\* C32: after any sequence of enable_global, disable_global and
\* set_package_flags calls, is_package_flag_enabled(P, X) is the value the
\* last set_package_flags(P, ...) gave X when it gave one, else what the last
\* enable_global / disable_global of X set, else false.
C32_FlagResolutionOrder ==
    uf_ret.op = "is_package_flag_enabled" =>
        LET k == LastPackageCall(uf_ret.package)
            g == LastGlobalCall(uf_ret.flag)
        IN uf_ret.result =
             IF k # 0 /\ uf_ret.flag \in DOMAIN uf_calls[k].flags_dict
             THEN uf_calls[k].flags_dict[uf_ret.flag]
             ELSE IF g # 0 THEN uf_calls[g].op = "enable_global"
             ELSE FALSE

\* A flag that is on globally and off for the package is reported off.
C32_Witness ==
    /\ uf_ret.op = "is_package_flag_enabled" /\ ~uf_ret.result
    /\ uf_ret.flag \in DOMAIN uf_global /\ uf_global[uf_ret.flag]
    /\ uf_ret.package \in DOMAIN uf_package
    /\ uf_ret.flag \in DOMAIN uf_package[uf_ret.package]

\* ---- Sandbox ----

IsBuildStep == sb_ret'.op = "build" /\ sb_ret'.seq # sb_ret.seq
RecordedBy(before, after) == SubSeq(after, Len(before) + 1, Len(after))

\* C40: when build_func raises inside Sandbox.build, the package's sandbox
\* directory holds what its latest snapshot holds (and, when the package
\* has no snapshot, what build_func left), the post_build hooks have not
\* run, no sandbox_build entry is recorded and the exception of build_func
\* is the one the caller gets; when build_func returns, the post_build hooks
\* run after it, the sandbox holds what build_func left, nothing is rolled
\* back and sandbox_build is recorded.
C40_FailedBuildRollsBack ==
    [][ IsBuildStep =>
          LET recorded == Range(RecordedBy(sb_history, sb_history'))
              trace == sb_ret'.trace
          IN IF sb_ret'.raised # "none"
             THEN /\ sb_dir' = IF sb_snapshot.exists THEN sb_snapshot.files ELSE sb_ret'.out
                  /\ \A k \in 1..Len(trace) : trace[k] # "post_build"
                  /\ "sandbox_build" \notin recorded
                  /\ sb_ret'.raised = "BuildError"
                  /\ sb_snapshot' = sb_snapshot
             ELSE /\ trace = <<"pre_build", "build_func", "post_build">>
                  /\ sb_dir' = sb_ret'.out
                  /\ ~sb_ret'.rolled_back
                  /\ "sandbox_rollback" \notin recorded
                  /\ Last(sb_history') = "sandbox_build" ]_vars

\* build_func left out in the sandbox and raised; the sandbox holds the
\* snapshot's obj again, sandbox_rollback is the last record.
C40_Witness ==
    /\ sb_ret.op = "build" /\ sb_ret.raised = "BuildError" /\ sb_ret.rolled_back
    /\ sb_ret.out = {"out"}
    /\ sb_snapshot = [exists |-> TRUE, files |-> {"obj"}]
    /\ sb_dir = {"obj"}
    /\ Last(sb_history) = "sandbox_rollback"
    /\ sb_ret.trace = <<"pre_build", "build_func", "rollback">>

====
